---------------------------- MODULE Spec2Model ----------------------------
(***************************************************************************)
(* CortexOS retrieval-ranking-retention engine.                            *)
(*                                                                         *)
(* Numbers.  Every score of the program is a float in [0,1]; the model     *)
(* keeps them as integers in hundredths (0..100).  Weighted blends are     *)
(* kept in 1/10000 (weight in hundredths times feature in hundredths), and *)
(* the retention score Pi in 1/10^8, so that every comparison the code     *)
(* makes is made here on exact integers.  exp(-0.1*days) is tabulated for  *)
(* the ages the model uses.  Floating-point rounding is not modelled.      *)
(***************************************************************************)
EXTENDS Integers, Sequences, FiniteSets, TLC

(***************************************************************************)
(* Bounds of the model.                                                    *)
(***************************************************************************)
\* memory ids 1..NumMem that exist before an operation
NumMem == 3
\* largest k a caller asks for
MaxK == 2
\* memories created while the model runs
MaxCreated == 2
\* calls of run_consolidation in one behaviour
MaxSweeps == 2
\* longest list the graph answers with
MaxGraphIds == 2
\* queries with a graph lookup in one behaviour
MaxCalls == 2
\* rows of the widest store a query runs over
WideMem == 21
\* longest retrieved list of a feedback record
MaxRetrieved == 2
\* training runs in one behaviour
MaxTrainRuns == 2
\* rows of feedback_logs written while the model runs
MaxFeedback == 1

(***************************************************************************)
(* Program constants.                                                      *)
(***************************************************************************)
top_k1 == 50         \* retrieve_candidates: vector hits
top_k2 == 30         \* retrieve_candidates: lexical hits
merge_cap == 100     \* retrieve_candidates: cap of the fused list
RerankSlice == 20    \* retrieve_with_hybrid: candidates[:20]
rerank_top_k == 5    \* query_memory passes rerank_top_k=5

None == "None"

\* a missing row of the memories table; a row has present = TRUE
NoMem == [present |-> FALSE]

\* Optional[float] = None of Memory.mvn_score and Candidate.mvn_score
NoScore == -1

\* app.state.bm25_index = None
NoIndex == [loaded |-> FALSE, doc_ids |-> <<>>]

MemIds == 1 .. NumMem
AllIds == 1 .. (NumMem + MaxCreated)
WideIds == 1 .. WideMem
Users == {"u1", "u2"}

Min(a, b) == IF a < b THEN a ELSE b
Max(a, b) == IF a > b THEN a ELSE b

Take(s, n) == SubSeq(s, 1, Min(Max(n, 0), Len(s)))

Front(s) == SubSeq(s, 1, Len(s) - 1)

Last(s) == s[Len(s)]

SeqIds(s) == {s[i].id : i \in 1 .. Len(s)}

(***************************************************************************)
(* list.sort(key=..., reverse=True): Python's sort is stable, and with     *)
(* reverse=True elements with equal keys keep their original order.  The   *)
(* elements are records with a field "key".                                *)
(***************************************************************************)
\* a sort that puts an element before the elements equal to it
InsertDescUnstable(x, s) ==
    LET after == {i \in 1 .. Len(s) : s[i].key > x.key}
        n == Cardinality(after)
    IN  SubSeq(s, 1, n) \o <<x>> \o SubSeq(s, n + 1, Len(s))

InsertDesc(x, s) ==
    LET after == {i \in 1 .. Len(s) : s[i].key >= x.key}
        n == Cardinality(after)
    IN  SubSeq(s, 1, n) \o <<x>> \o SubSeq(s, n + 1, Len(s))

RECURSIVE SortDesc(_)
SortDesc(s) ==
    IF s = <<>> THEN <<>> ELSE InsertDesc(Last(s), SortDesc(Front(s)))

(***************************************************************************)
(* exp(-lambda_decay * days) for lambda_decay = 0.1, in hundredths.        *)
(***************************************************************************)

ExpDecay(days) ==
    CASE days = 0 -> 100
      [] days = 7 -> 50
      [] days = 14 -> 25
      [] days = 21 -> 12
      [] days = 30 -> 5
      [] OTHER -> 0

(***************************************************************************)
(* temporal_score(created_at, last_used): the row's last_used is never     *)
(* NULL (to_db_row stores created_at when the memory was never used).      *)
(***************************************************************************)
temporal_score(mem) == ExpDecay(mem.age)

\* `mem.importance or 0.5`: an importance of 0.0 is falsy and reads as 0.5
ImportanceOr(mem) == IF mem.importance = 0 THEN 50 ELSE mem.importance


(***************************************************************************)
(* State.                                                                  *)
(*  store         the memories table: id -> row, or NoMem                  *)
(*  bm25_index    app.state.bm25_index: NoIndex, or the index's _doc_ids   *)
(*  graph_store   app.state.graph_store: None or "neo4j"                   *)
(*  graph_edges   the memory ids the graph holds near the query's entities *)
(*  graph_metrics the graph_metrics table: id -> None or [pagerank,degree] *)
(*  mvn_model     app.state.mvn_model: None or the id of loaded weights    *)
(*  query         what the query is to each memory: its cosine similarity, *)
(*                its BM25 score, whether it has tokens, entities          *)
(*  req           the arguments of the retrieve_with_hybrid call           *)
(*  res           the call's position and what it computed                 *)
(*  feedback_logs the feedback_logs table, newest first                    *)
(*  checkpoint    the file at CORTEX_MVN_CHECKPOINT: None or the weights   *)
(*                saved in it                                              *)
(*  train         the last training run: what it built and how it ended    *)
(*  resp          the last request to an endpoint and the response to it   *)
(*  builder       the clock, in days since the rows' ages were read, and   *)
(*                the calls of build_mvn_features made so far              *)
(*  pipeline      two concurrent retrieve_with_hybrid calls: what they     *)
(*                share and each call's position and local variables       *)
(* job            the background job in progress: its position and locals  *)
(* conn           app.state.db_connection, the one psycopg2 connection of  *)
(*                the store, the vector index and the rollback middleware: *)
(*                whether its transaction is aborted, and the statements   *)
(*                executed on it that no commit has made durable yet       *)
(***************************************************************************)
VARIABLES store, bm25_index, graph_store, graph_edges, graph_metrics,
          mvn_model, query, req, res, runs, fault, next_id, gcalls,
          feedback_logs, checkpoint, train, resp,
          builder, pipeline,
          job, conn

\* the background jobs and the database connection every thread shares
jobVars == <<job, conn>>

\* the scheduler has started no job
NoJob == [pc |-> "off", users |-> <<>>, ui |-> 1, consolidated |-> {}, failed |-> {},
          faulted |-> {}, swept |-> {},
          op |-> None, target |-> 0, rowcount |-> 0, returned |-> None,
          entries |-> <<>>, ei |-> 1]

\* psycopg2.connect(DATABASE_URL): no transaction open, nothing pending
NoConn == [status |-> "idle", pending |-> <<>>]

\* what a training run reads and writes besides the memories table
trainVars == <<feedback_logs, checkpoint, train>>

\* no request yet
NoResp == [endpoint |-> None, status |-> 0]

\* no call of the feature builder yet
NoCalls == [now |-> 0, calls |-> {}]

\* no concurrent calls
NoPipeline == [shared |-> None, local |-> <<>>]

\* no training run yet
NoTrain == [runs |-> 0, entries |-> <<>>, samples |-> <<>>, source |-> None,
            called |-> FALSE, model |-> None, exit |-> None]

\* what a query reads and writes besides the memories table
queryVars == <<bm25_index, graph_store, graph_edges, graph_metrics,
               mvn_model, query, req, res>>

RECURSIVE AscSeq(_)
AscSeq(S) ==
    IF S = {} THEN <<>>
    ELSE LET m == CHOOSE x \in S : \A y \in S : x <= y
         IN  <<m>> \o AscSeq(S \ {m})

RECURSIVE DescSeq(_)
DescSeq(S) ==
    IF S = {} THEN <<>>
    ELSE LET m == CHOOSE x \in S : \A y \in S : x >= y
         IN  <<m>> \o DescSeq(S \ {m})

StoredIds(st) == {m \in DOMAIN st : st[m].present}

(***************************************************************************)
(* MemoryStore.get_user_memories: WHERE user_id = .. ORDER BY created_at   *)
(* DESC LIMIT ..; ids are handed out in creation order.                    *)
(***************************************************************************)
get_user_memories(st, user_id, limit) ==
    Take(DescSeq({m \in StoredIds(st) : st[m].owner = user_id}), limit)

(***************************************************************************)
(* VectorIndex.search: rows with an embedding, of the user when one is     *)
(* given, by cosine distance, LIMIT k, each with score = 1 - distance.     *)
(***************************************************************************)
vector_search(st, q, user_id, k) ==
    LET rows == {m \in StoredIds(st) :
                    /\ st[m].has_emb
                    /\ (user_id # None => st[m].owner = user_id)}
        asc == AscSeq(rows)
        keyed == [i \in 1 .. Len(asc) |->
                    [id |-> asc[i], score |-> q.sim[asc[i]], key |-> q.sim[asc[i]]]]
        hits == Take(SortDesc(keyed), k)
    IN  [i \in 1 .. Len(hits) |-> [id |-> hits[i].id, score |-> hits[i].score]]

(***************************************************************************)
(* BM25Index.search: a score for every document of the index, filtered by  *)
(* user_doc_ids when given, sorted by -score, cut to top_k.                *)
(***************************************************************************)
bm25_search(doc_ids, q, top_k, filtered, user_doc_ids) ==
    IF doc_ids = <<>> \/ ~q.has_tokens THEN <<>>
    ELSE LET all == [i \in 1 .. Len(doc_ids) |->
                       [id |-> doc_ids[i], score |-> q.bm[doc_ids[i]],
                        key |-> q.bm[doc_ids[i]]]]
             keep(r) == filtered => r.id \in user_doc_ids
             hits == Take(SortDesc(SelectSeq(all, keep)), top_k)
         IN  [i \in 1 .. Len(hits) |-> [id |-> hits[i].id, score |-> hits[i].score]]

HasId(cands, mid) == \E i \in 1 .. Len(cands) : cands[i].id = mid

FirstIdx(cands, mid) ==
    CHOOSE i \in 1 .. Len(cands) :
        cands[i].id = mid /\ \A j \in 1 .. (i - 1) : cands[j].id # mid

\* hybrid_search.py 63-65: every vector hit is a row of the fused list
VecStage(vec) ==
    [cands |-> [i \in 1 .. Len(vec) |->
                  [id |-> vec[i].id, similarity |-> vec[i].score,
                   bm25_score |-> 0, from_graph |-> FALSE]],
     seen |-> SeqIds(vec)]

\* hybrid_search.py 74-84: one lexical hit merged into the fused list
\* a lexical merge that overwrites the row of a memory already seen
LexMergeOverwrites(acc, h, st) ==
    IF h.id \in acc.seen
    THEN [acc EXCEPT !.cands =
            IF HasId(@, h.id)
            THEN [@ EXCEPT ![FirstIdx(@, h.id)] =
                    [id |-> h.id, similarity |-> 0,
                     bm25_score |-> h.score, from_graph |-> FALSE]]
            ELSE @]
    ELSE [seen |-> acc.seen \cup {h.id},
          cands |-> IF st[h.id].present
                    THEN Append(acc.cands,
                                [id |-> h.id, similarity |-> 0,
                                 bm25_score |-> h.score, from_graph |-> FALSE])
                    ELSE acc.cands]

LexMerge(acc, h, st) ==
    IF h.id \in acc.seen
    THEN [acc EXCEPT !.cands =
            IF HasId(@, h.id)
            THEN [@ EXCEPT ![FirstIdx(@, h.id)].bm25_score = h.score]
            ELSE @]
    ELSE [seen |-> acc.seen \cup {h.id},
          cands |-> IF st[h.id].present
                    THEN Append(acc.cands,
                                [id |-> h.id, similarity |-> 0,
                                 bm25_score |-> h.score, from_graph |-> FALSE])
                    ELSE acc.cands]

RECURSIVE LexStage(_, _, _)
LexStage(acc, lex, st) ==
    IF lex = <<>> THEN acc
    ELSE LexStage(LexMerge(acc, Head(lex), st), Tail(lex), st)

\* a graph merge that takes a memory of any owner
GraphMerge_any_owner(acc, mid, st, user_id) ==
    IF mid \in acc.seen
    THEN [acc EXCEPT !.cands =
            IF HasId(@, mid)
            THEN [@ EXCEPT ![FirstIdx(@, mid)].from_graph = TRUE]
            ELSE @]
    ELSE [seen |-> acc.seen \cup {mid},
          cands |-> IF st[mid].present
                    THEN Append(acc.cands,
                                [id |-> mid, similarity |-> 0,
                                 bm25_score |-> 0, from_graph |-> TRUE])
                    ELSE acc.cands]

\* hybrid_search.py 96-106: one graph id merged into the fused list
GraphMerge(acc, mid, st, user_id) ==
    IF mid \in acc.seen
    THEN [acc EXCEPT !.cands =
            IF HasId(@, mid)
            THEN [@ EXCEPT ![FirstIdx(@, mid)].from_graph = TRUE]
            ELSE @]
    ELSE [seen |-> acc.seen \cup {mid},
          cands |-> IF st[mid].present /\ (user_id = None \/ st[mid].owner = user_id)
                    THEN Append(acc.cands,
                                [id |-> mid, similarity |-> 0,
                                 bm25_score |-> 0, from_graph |-> TRUE])
                    ELSE acc.cands]

RECURSIVE GraphStage(_, _, _, _)
GraphStage(acc, gids, st, user_id) ==
    IF gids = <<>> THEN acc
    ELSE GraphStage(GraphMerge(acc, Head(gids), st, user_id), Tail(gids), st, user_id)

\* a cap that keeps the end of the fused list
CapAndEnrich_tail(cands, st, cap) ==
    LET capped == SubSeq(cands, Max(1, Len(cands) - cap + 1), Len(cands))
    IN  [i \in 1 .. Len(capped) |->
            capped[i] @@ [temporal_score |-> temporal_score(st[capped[i].id]),
                          importance |-> ImportanceOr(st[capped[i].id])]]

\* hybrid_search.py 111-114: the cap, then temporal_score and importance
CapAndEnrich(cands, st, cap) ==
    LET capped == Take(cands, cap)
    IN  [i \in 1 .. Len(capped) |->
            capped[i] @@ [temporal_score |-> temporal_score(st[capped[i].id]),
                          importance |-> ImportanceOr(st[capped[i].id])]]

(***************************************************************************)
(* retrieve_candidates.  gids is what graph_store.traverse answers (the    *)
(* empty list after a timeout).  The result keeps the three source lists   *)
(* beside the fused list.                                                  *)
(***************************************************************************)
\* a guard that asks the graph whenever a graph store is configured
graph_expansion_always(gstore, q) == gstore # None

\* hybrid_search.py 91: `if graph_store is not None and query_entities`
graph_expansion_runs(gstore, q) == gstore # None /\ q.has_entities

retrieve_candidates(st, idx, gstore, gids, q, user_id, k1, k2, cap) ==
    LET vec == vector_search(st, q, user_id, k1)
        user_set == IF user_id # None
                    THEN LET um == get_user_memories(st, user_id, 5000)
                         IN  {um[i] : i \in 1 .. Len(um)}
                    ELSE {}
        lex == IF idx.loaded
               THEN bm25_search(idx.doc_ids, q, k2, user_id # None, user_set)
               ELSE <<>>
        asked == graph_expansion_runs(gstore, q)
        graph == IF asked THEN gids ELSE <<>>
        s1 == VecStage(vec)
        s2 == LexStage(s1, lex, st)
        s3 == GraphStage(s2, graph, st, user_id)
    IN  [vec |-> vec, lex |-> lex, graph |-> graph,
         graph_calls |-> IF asked THEN 1 ELSE 0,
         raw |-> CapAndEnrich(s3.cands, st, cap)]

(***************************************************************************)
(* MemoryStore.get_graph_metrics merged into the raw features              *)
(* (retrieval_pipeline.py 51-56): an id without a cached row reads         *)
(* pagerank 0.0, degree 0.                                                 *)
(***************************************************************************)
NoMetrics == [cached |-> FALSE, pagerank |-> 0, degree |-> 0]

WithGraphMetrics(raw, gm) ==
    [i \in 1 .. Len(raw) |->
        raw[i] @@ [pagerank |-> IF gm[raw[i].id].cached THEN gm[raw[i].id].pagerank ELSE 0,
                   degree |-> IF gm[raw[i].id].cached THEN gm[raw[i].id].degree ELSE 0]]

SeqMin(s, f(_)) == CHOOSE v \in {f(s[i]) : i \in 1 .. Len(s)} :
                      \A i \in 1 .. Len(s) : v <= f(s[i])

SeqMax(s, f(_)) == CHOOSE v \in {f(s[i]) : i \in 1 .. Len(s)} :
                      \A i \in 1 .. Len(s) : v >= f(s[i])

\* _normalize: min-max to [0,1], 0.5 when hi <= lo
normalize(x, lo, hi) ==
    IF hi <= lo THEN 50 ELSE Max(0, Min(100, (100 * (x - lo)) \div (hi - lo)))

(***************************************************************************)
(* build_candidates: graph_score = 0.6*norm(pagerank) + 0.4*norm(degree)   *)
(* when the pool's pageranks or degrees differ, else 0.3 for a candidate   *)
(* from the graph and 0.0 otherwise.                                       *)
(***************************************************************************)
build_candidates(hybrid_results) ==
    LET pr(r) == r.pagerank
        deg(r) == r.degree
        some == hybrid_results # <<>>
        pr_lo == IF some THEN SeqMin(hybrid_results, pr) ELSE 0
        pr_hi == IF some THEN SeqMax(hybrid_results, pr) ELSE 1
        deg_lo == IF some THEN SeqMin(hybrid_results, deg) ELSE 0
        deg_hi == IF some THEN SeqMax(hybrid_results, deg) ELSE 1
        gscore(r) ==
            IF pr_hi > pr_lo \/ deg_hi > deg_lo
            THEN (60 * normalize(r.pagerank, pr_lo, pr_hi)
                  + 40 * normalize(r.degree, deg_lo, deg_hi)) \div 100
            ELSE IF r.from_graph THEN 30 ELSE 0
    IN  [i \in 1 .. Len(hybrid_results) |->
            LET r == hybrid_results[i]
            IN  [id |-> r.id,
                 similarity |-> r.similarity,
                 recency |-> r.temporal_score,
                 importance |-> r.importance,
                 pagerank |-> r.pagerank,
                 entity_overlap |-> 0,
                 bm25_score |-> r.bm25_score,
                 temporal_score |-> r.temporal_score,
                 from_graph |-> r.from_graph,
                 graph_score |-> gscore(r),
                 mvn_score |-> NoScore,
                 final_score |-> NoScore]]

(***************************************************************************)
(* Candidate.score, in 1/10000:                                            *)
(* 0.4*similarity + 0.2*recency + 0.2*importance + 0.2*temporal_score      *)
(* + 0.1*(1.0 if from_graph else 0.0)                                      *)
(***************************************************************************)
CandidateScore(c) ==
    40 * c.similarity + 20 * c.recency + 20 * c.importance
    + 20 * c.temporal_score + (IF c.from_graph THEN 1000 ELSE 0)

(***************************************************************************)
(* build_mvn_features on the Candidate path: the 11 features.              *)
(***************************************************************************)
build_mvn_features(q, c, mem, pagerank, graph_distance, intent_type) ==
    LET usage == mem.usage_count
        usage_norm == IF usage # 0 THEN Min(100, 10 * usage) ELSE 0
        emotion_intensity == IF mem.emotion THEN 50 ELSE 0
        recency == IF c.recency # 0 THEN c.recency ELSE c.temporal_score
    IN  <<c.similarity, recency, c.importance, usage_norm, pagerank,
          c.entity_overlap, emotion_intensity, c.similarity, 50,
          graph_distance, 25 * intent_type>>

build_mvn_feature_dim == 11

(***************************************************************************)
(* MVN.forward: a learned map from the feature vector into (0,1).  Two     *)
(* sets of trained weights stand for it: w1 follows similarity, w2 prefers *)
(* what is old; w0 is the freshly initialised network, which tells no      *)
(* candidate from another.                                                 *)
(***************************************************************************)
MVNForward(w, f) ==
    CASE w = "w0" -> 50
      [] w = "w1" -> Max(1, Min(99, f[1]))
      [] OTHER -> Max(1, Min(99, 100 - f[2]))

(***************************************************************************)
(* score_candidates: nothing to do for an empty list; the model is run     *)
(* only when one is loaded.  calls counts the runs of the model.           *)
(***************************************************************************)
\* a scorer that runs the forward pass on an empty batch too
score_candidates_unguarded(q, candidates, model, st) ==
    IF model # None
    THEN [cands |-> [i \in 1 .. Len(candidates) |->
                       [candidates[i] EXCEPT
                           !.mvn_score =
                               MVNForward(model,
                                   build_mvn_features(q, candidates[i],
                                       st[candidates[i].id], candidates[i].pagerank,
                                       candidates[i].graph_score, q.intent))]],
          calls |-> 1]
    ELSE [cands |-> candidates, calls |-> 0]

score_candidates(q, candidates, model, st) ==
    IF candidates = <<>> THEN [cands |-> candidates, calls |-> 0]
    ELSE LET features_list ==
                 [i \in 1 .. Len(candidates) |->
                     build_mvn_features(q, candidates[i], st[candidates[i].id],
                                        candidates[i].pagerank,
                                        candidates[i].graph_score, q.intent)]
         IN  IF model # None
             THEN [cands |-> [i \in 1 .. Len(candidates) |->
                                [candidates[i] EXCEPT
                                    !.mvn_score = MVNForward(model, features_list[i])]],
                   calls |-> 1]
             ELSE [cands |-> candidates, calls |-> 0]

\* retrieval_pipeline.py 67-77: the first-pass score, in 1/10000
FirstPassScore(c) ==
    IF c.mvn_score # NoScore
    THEN 40 * c.mvn_score + 20 * c.similarity
         + 15 * (IF c.recency # 0 THEN c.recency ELSE c.temporal_score)
         + 15 * c.importance + 10 * c.graph_score
    ELSE CandidateScore(c)

\* reranker.py 14-17: 0.5*graph_score + 0.3*mvn + 0.2*similarity, in 1/10000
RerankScore(c) ==
    50 * c.graph_score
    + 30 * (IF c.mvn_score # NoScore THEN c.mvn_score ELSE 0)
    + 20 * c.similarity

\* candidates.sort(key=final_score, reverse=True)
SortByFinal(cands) ==
    LET keyed == [i \in 1 .. Len(cands) |-> [key |-> cands[i].final_score, c |-> cands[i]]]
        sorted == SortDesc(keyed)
    IN  [i \in 1 .. Len(sorted) |-> sorted[i].c]

\* a reranker that keeps the first-pass order
rerank_keeps_order(candidates, top_k) ==
    Take([i \in 1 .. Len(candidates) |->
            [candidates[i] EXCEPT !.final_score = RerankScore(candidates[i])]],
         top_k)

rerank(candidates, top_k) ==
    Take(SortByFinal([i \in 1 .. Len(candidates) |->
                        [candidates[i] EXCEPT !.final_score = RerankScore(candidates[i])]]),
         top_k)

(***************************************************************************)
(* retrieve_with_hybrid.                                                   *)
(***************************************************************************)
\* a pipeline that hands the reranker every candidate, not the first 20
retrieve_with_hybrid_unsliced(st, idx, gstore, gids, gm, model, q, user_id, k, use_reranker, rr_top_k) ==
    LET fused == retrieve_candidates(st, idx, gstore, gids, q, user_id,
                                     top_k1, top_k2, merge_cap)
        candidates == build_candidates(WithGraphMetrics(fused.raw, gm))
        scored == score_candidates(q, candidates, model, st)
        blended == [i \in 1 .. Len(scored.cands) |->
                      [scored.cands[i] EXCEPT !.final_score = FirstPassScore(scored.cands[i])]]
        ranked == SortByFinal(blended)
    IN  [vec |-> fused.vec, lex |-> fused.lex, graph |-> fused.graph,
         raw |-> fused.raw, ranked |-> ranked, model_calls |-> scored.calls,
         out |-> IF use_reranker /\ ranked # <<>>
                 THEN rerank(ranked, Min(rr_top_k, k))
                 ELSE Take(ranked, k)]

retrieve_with_hybrid(st, idx, gstore, gids, gm, model, q, user_id, k, use_reranker, rr_top_k) ==
    LET fused == retrieve_candidates(st, idx, gstore, gids, q, user_id,
                                     top_k1, top_k2, merge_cap)
        candidates == build_candidates(WithGraphMetrics(fused.raw, gm))
        scored == score_candidates(q, candidates, model, st)
        blended == [i \in 1 .. Len(scored.cands) |->
                      [scored.cands[i] EXCEPT !.final_score = FirstPassScore(scored.cands[i])]]
        ranked == SortByFinal(blended)
        top_20 == Take(ranked, RerankSlice)
    IN  [vec |-> fused.vec, lex |-> fused.lex, graph |-> fused.graph,
         raw |-> fused.raw, ranked |-> ranked, model_calls |-> scored.calls,
         out |-> IF use_reranker /\ top_20 # <<>>
                 THEN rerank(top_20, Min(rr_top_k, k))
                 ELSE Take(ranked, k)]

(***************************************************************************)
(* A row of the memories table (schema.py Memory / to_db_row).  age is the *)
(* number of days since last_used.                                         *)
(***************************************************************************)
Row(owner, type, importance, mvn_score, age, usage_count, text_len, has_emb) ==
    [present |-> TRUE, owner |-> owner, type |-> type, importance |-> importance,
     mvn_score |-> mvn_score, age |-> age, usage_count |-> usage_count,
     text_len |-> text_len, has_emb |-> has_emb, emotion |-> FALSE,
     provenance |-> <<>>]

\* the tables of a database that holds the given rows for the ids 1..NumMem
StoreOf(rows) == rows @@ [m \in AllIds \ MemIds |-> NoMem]

\* the sequences of at most n distinct elements of S
RECURSIVE DistinctSeqs(_, _)
DistinctSeqs(S, n) ==
    IF n = 0 THEN {<<>>}
    ELSE LET shorter == DistinctSeqs(S, n - 1)
         IN  shorter \cup
             {u \in {Append(t, x) : t \in shorter, x \in S} :
                \A i, j \in 1 .. Len(u) : i < j => u[i] # u[j]}

IdleRes == [pc |-> "idle", vec |-> <<>>, lex |-> <<>>, graph |-> <<>>, raw |-> <<>>,
            ranked |-> <<>>, out |-> <<>>, model_calls |-> 0]

(***************************************************************************)
(* Initial states of a query.  The first family varies what the three      *)
(* sources hold (rows present or deleted, their owners, a lexical index    *)
(* built from an older snapshot, the graph's answer) under fixed scores;   *)
(* the second varies the scores, the cached centrality, the loaded model   *)
(* and the call's arguments over a store of one user.                      *)
(***************************************************************************)
InitFusion ==
    /\ store \in {StoreOf(f) :
                    f \in [MemIds -> {NoMem} \cup
                                     {Row(u, "episodic", 60, NoScore, 0, 0, 40, TRUE) : u \in Users}]}
    /\ bm25_index \in {NoIndex} \cup
                      {[loaded |-> TRUE, doc_ids |-> DescSeq(S)] : S \in SUBSET MemIds}
    /\ \E g \in {<<None, FALSE, <<>> >>, <<None, TRUE, <<>> >>, <<"neo4j", FALSE, <<>> >>}
                \cup {<<"neo4j", TRUE, l>> : l \in DistinctSeqs(MemIds, MaxGraphIds)} :
          /\ graph_store = g[1]
          /\ graph_edges = g[3]
          /\ query = [sim |-> [m \in AllIds |-> 20 + 10 * m],
                      bm |-> [m \in AllIds |-> 10 * m],
                      has_tokens |-> TRUE, has_entities |-> g[2], intent |-> 3]
    /\ graph_metrics = [m \in AllIds |-> NoMetrics]
    /\ mvn_model = None
    /\ req \in {[user_id |-> u, k |-> MaxK, use_reranker |-> TRUE,
                 rerank_top_k |-> rerank_top_k] : u \in {None} \cup Users}
    /\ res = IdleRes

InitRank ==
    /\ store \in {StoreOf(f) :
                    f \in {g \in [MemIds -> {Row("u1", "episodic", i, NoScore, a, 0, 40, TRUE) :
                                               i \in {0, 60}, a \in {0, 30}}] :
                             \A m \in MemIds : m # 1 => g[m].importance = 60}}
    /\ bm25_index = [loaded |-> TRUE, doc_ids |-> DescSeq(MemIds)]
    /\ graph_store = "neo4j"
    /\ graph_edges \in {<<>>, <<NumMem>>}
    /\ query \in {[sim |-> f, bm |-> [m \in AllIds |-> 10],
                   has_tokens |-> TRUE, has_entities |-> TRUE, intent |-> 3] :
                     f \in {g \in [AllIds -> {30, 90}] : \A m \in AllIds \ MemIds : g[m] = 30}}
    /\ graph_metrics \in {[m \in AllIds |-> NoMetrics],
                          [m \in AllIds |-> [cached |-> m \in MemIds,
                                             pagerank |-> IF m = NumMem THEN 2 ELSE 0,
                                             degree |-> IF m = NumMem THEN 1 ELSE 0]]}
    /\ mvn_model \in {None, "w1", "w2"}
    /\ req \in {[user_id |-> u, k |-> k, use_reranker |-> r,
                 rerank_top_k |-> rerank_top_k] :
                  u \in Users, k \in 1 .. MaxK, r \in BOOLEAN}
    /\ res = IdleRes

(***************************************************************************)
(* The third family: a store of one user holding more rows than the slice  *)
(* the reranker is given (retrieval_pipeline.py 79), similarities rising   *)
(* with the id, the oldest row alone with a high cached pagerank, and the  *)
(* call's k and rerank_top_k below, at and above the slice.                *)
(***************************************************************************)
InitWide ==
    /\ \E n \in (WideMem - 2) .. WideMem :
          store = [m \in WideIds |->
                     IF m <= n THEN Row("u1", "episodic", 60, NoScore, 0, 0, 40, TRUE)
                     ELSE NoMem]
    /\ bm25_index = NoIndex
    /\ graph_store = None
    /\ graph_edges = <<>>
    /\ query = [sim |-> [m \in WideIds |-> 20 + 3 * m], bm |-> [m \in WideIds |-> 10],
                has_tokens |-> TRUE, has_entities |-> FALSE, intent |-> 3]
    /\ graph_metrics \in {[m \in WideIds |-> NoMetrics],
                          [m \in WideIds |-> [cached |-> TRUE,
                                              pagerank |-> IF m = 1 THEN 2 ELSE 0,
                                              degree |-> 0]]}
    /\ mvn_model \in {None, "w1"}
    /\ req \in {[user_id |-> "u1", k |-> k, use_reranker |-> r, rerank_top_k |-> t] :
                  k \in {1, MaxK, WideMem}, r \in BOOLEAN,
                  t \in {1, rerank_top_k, WideMem}}
    /\ res = IdleRes

(***************************************************************************)
(* query_memory -> retrieve_with_hybrid: one call, start to return.        *)
(***************************************************************************)
QueryMemory ==
    /\ res.pc = "idle"
    /\ res' = [pc |-> "done"] @@
              retrieve_with_hybrid(store, bm25_index, graph_store, graph_edges,
                                   graph_metrics, mvn_model, query, req.user_id,
                                   req.k, req.use_reranker, req.rerank_top_k)
    /\ UNCHANGED <<store, bm25_index, graph_store, graph_edges, graph_metrics,
                   mvn_model, query, req, runs, fault, next_id, gcalls, trainVars,
                   resp, builder, pipeline, jobVars>>

(***************************************************************************)
(* Retention: decay.py.  V, D and Pi are in 1/10000, 1/10000 and 1/10^8;   *)
(* the storage cost is in thousandths.  The clock is read when a score is  *)
(* computed; a memory's age is its distance to that reading, and the runs  *)
(* modelled here are short enough for the ages not to change.              *)
(***************************************************************************)
tau_delete == 8000000
cluster_utility_threshold == 15000000
distance_threshold == 35
min_cluster_size == 2
max_clusters_to_summarize == 50
SweepLimit == 2000

\* usage_mod = 0.9 - 0.4 * min(1, usage / 10), in hundredths
discount_factor(memory) ==
    LET age_decay == 100 - ExpDecay(memory.age)
        usage_mod == 90 - 4 * Min(10, memory.usage_count)
    IN  Min(10000, Max(0, age_decay * usage_mod))

storage_cost(memory) == Min(1000, Max(0, memory.text_len))

expected_value_proxy(memory) ==
    LET mvn == IF memory.mvn_score # NoScore THEN memory.mvn_score ELSE 50
        imp == ImportanceOr(memory)
    IN  60 * Max(20, mvn) + 40 * imp

compute_pi(memory) ==
    Max(0, expected_value_proxy(memory) * (10000 - discount_factor(memory))
           - 100000 * storage_cost(memory))

compute_retention(memory) == compute_pi(memory)

\* a deletion test that also fires on the threshold itself
should_delete_at_threshold(score) == score <= tau_delete

should_delete(score) == score < tau_delete

(***************************************************************************)
(* Clustering: clustering.py.  The embeddings enter through the cosine     *)
(* distances of the memories, in hundredths: 1 and 2 are near, 3 is near 2 *)
(* and farther from 1, everything else is far from everything.             *)
(***************************************************************************)
Dist(a, b) ==
    LET p == {a, b}
    IN  IF a = b THEN 0
        ELSE IF p = {1, 2} THEN 5
        ELSE IF p = {2, 3} THEN 20
        ELSE IF p = {1, 3} THEN 40
        ELSE 90

RECURSIVE SumOver(_, _)
SumOver(S, f) ==
    IF S = {} THEN 0
    ELSE LET x == CHOOSE y \in S : TRUE
         IN  f[x] + SumOver(S \ {x}, f)

\* the sum of the distances between the members of two clusters
LinkSum(A, B) == SumOver(A \X B, [p \in A \X B |-> Dist(p[1], p[2])])

\* average linkage of the pair p is at most that of the pair q
CloserOrEqual(p, q) ==
    LinkSum(p[1], p[2]) * Cardinality(q[1]) * Cardinality(q[2])
        <= LinkSum(q[1], q[2]) * Cardinality(p[1]) * Cardinality(p[2])

(***************************************************************************)
(* AgglomerativeClustering(n_clusters=None, distance_threshold, metric =   *)
(* "cosine", linkage="average"): the two clusters of least average         *)
(* distance are merged while that distance is below the threshold.         *)
(***************************************************************************)
RECURSIVE Agglomerate(_, _)
Agglomerate(P, threshold) ==
    LET pairs == {p \in P \X P : p[1] # p[2]}
    IN  IF pairs = {} THEN P
        ELSE LET best == CHOOSE p \in pairs : \A q \in pairs : CloserOrEqual(p, q)
             IN  IF LinkSum(best[1], best[2])
                      < threshold * Cardinality(best[1]) * Cardinality(best[2])
                 THEN Agglomerate((P \ {best[1], best[2]}) \cup {best[1] \cup best[2]},
                                  threshold)
                 ELSE P

\* the position of the first member of a cluster in the list clustered
FirstPos(ids, C) == CHOOSE i \in 1 .. Len(ids) : ids[i] \in C /\ \A j \in 1 .. i - 1 : ids[j] \notin C

\* the members of C in the order of the list
RECURSIVE Filter(_, _)
Filter(ids, C) ==
    IF ids = <<>> THEN <<>>
    ELSE (IF ids[1] \in C THEN <<ids[1]>> ELSE <<>>) \o Filter(Tail(ids), C)

RECURSIVE OrderClusters(_, _)
OrderClusters(ids, P) ==
    IF P = {} THEN <<>>
    ELSE LET C == CHOOSE X \in P : \A Y \in P : FirstPos(ids, X) <= FirstPos(ids, Y)
         IN  <<Filter(ids, C)>> \o OrderClusters(ids, P \ {C})

\* cluster_memories: the clusters in the order of their labels' first use
cluster_memories(ids, threshold) ==
    IF ids = <<>> THEN <<>>
    ELSE OrderClusters(ids, Agglomerate({{ids[i]} : i \in 1 .. Len(ids)}, threshold))

(***************************************************************************)
(* The consolidation sweep: sleep_worker.py and summarizer.py.             *)
(*                                                                         *)
(* runs      the calls of run_consolidation so far, the last one possibly  *)
(*           in progress; a call's record holds its locals and a log of    *)
(*           what it wrote                                                 *)
(* fault     the database may still fail one write                         *)
(* next_id   the id the next new memory gets                               *)
(***************************************************************************)
sweepVars == <<runs, fault, next_id>>

\* length of the text llm_summarize answers with
SummaryLen == 40

\* sum(compute_pi(m) for m in cluster); the average is this over Len(ids)
PiSum(ids, snap) == SumOver({ids[i] : i \in 1 .. Len(ids)},
                            [m \in {ids[i] : i \in 1 .. Len(ids)} |-> compute_pi(snap[m])])

\* _cluster_utility(a) >= _cluster_utility(b)
UtilityGeq(a, b, snap) ==
    PiSum(a, snap) * Len(b) >= PiSum(b, snap) * Len(a)

\* _cluster_utility(cluster) < cluster_utility_threshold
BelowUtility(ids, snap) == PiSum(ids, snap) < cluster_utility_threshold * Len(ids)

\* a sweep that takes the clusters in the order of their labels
SortByUtility_unsorted(cs, snap) == cs

\* cluster_list.sort(key=_cluster_utility, reverse=True), a stable sort
RECURSIVE SortByUtility(_, _)
SortByUtility(cs, snap) ==
    IF cs = <<>> THEN <<>>
    ELSE LET sorted == SortByUtility(Front(cs), snap)
             x == Last(cs)
             n == Cardinality({i \in 1 .. Len(sorted) : UtilityGeq(sorted[i], x, snap)})
         IN  SubSeq(sorted, 1, n) \o <<x>> \o SubSeq(sorted, n + 1, Len(sorted))

RECURSIVE SelectSeq2(_, _)
SelectSeq2(cs, n) ==
    IF cs = <<>> THEN <<>>
    ELSE (IF Len(cs[1]) >= n THEN <<cs[1]>> ELSE <<>>) \o SelectSeq2(Tail(cs), n)

CurrentRun == runs[Len(runs)]

SweepIdle == IF runs = <<>> THEN TRUE ELSE CurrentRun.pc \in {"returned", "raised"}

\* run_consolidation(user_id, .., min_cluster_size, .., max_clusters_to_summarize)
\* 35-44: load, filter, cluster, sort; nothing is written
BeginSweep(u, min_size, max_to_summarize) ==
    /\ SweepIdle
    /\ Len(runs) < MaxSweeps
    /\ LET memories == get_user_memories(store, u, SweepLimit)
           snap == [m \in {memories[i] : i \in 1 .. Len(memories)} |-> store[m]]
           episodic == Filter(memories, {m \in DOMAIN snap :
                                           snap[m].type = "episodic" /\ snap[m].has_emb})
           early == Len(episodic) < min_size
           clusters == IF early THEN <<>> ELSE cluster_memories(episodic, distance_threshold)
           cluster_list == SortByUtility(SelectSeq2(clusters, min_size), snap)
       IN  runs' = Append(runs,
                [user |-> u,
                 min_cluster_size |-> min_size,
                 max_clusters_to_summarize |-> max_to_summarize,
                 pc |-> IF early THEN "returned"
                        ELSE IF cluster_list = <<>> THEN "delete" ELSE "summarize",
                 memories |-> memories, snap |-> snap, episodic |-> episodic,
                 clusters |-> clusters, cluster_list |-> cluster_list,
                 ci |-> 1, di |-> 1, semantic_created |-> 0, deleted |-> 0,
                 stored |-> <<>>, removed |-> {}, failed |-> {},
                 result |-> IF early
                            THEN [clusters |-> 0, semantic_created |-> 0, deleted |-> 0]
                            ELSE [clusters |-> -1, semantic_created |-> -1, deleted |-> -1]])
    /\ UNCHANGED <<store, fault, next_id, queryVars, gcalls, trainVars, resp, builder, pipeline, jobVars>>

\* the callers pass the defaults (scheduler.py 22, routes_consolidate.py)
StartSweep(u) == BeginSweep(u, min_cluster_size, max_clusters_to_summarize)

\* where the summarize loop goes after the cluster at ci
AfterCluster(r) ==
    IF r.ci = Len(r.cluster_list)
    THEN [r EXCEPT !.pc = "delete"]
    ELSE [r EXCEPT !.ci = @ + 1]

\* the memory create_semantic_memory stores: MemoryCreate without provenance
SemanticRow(u) == Row(u, "semantic", 60, NoScore, 0, 0, 2 * SummaryLen, TRUE)

(***************************************************************************)
(* sleep_worker.py 46-53 with create_semantic_memory: one turn of the      *)
(* summarize loop.  The outcome of the call is "created", "none" (the      *)
(* summary is empty), "raise_before" (embed or add_memory raises) or       *)
(* "raise_after" (the row is committed, vector_index.add or the graph      *)
(* build raises); nothing in the loop catches an exception.                *)
(***************************************************************************)
SummarizeStep(outcome) ==
    /\ runs # <<>>
    /\ CurrentRun.pc = "summarize"
    /\ LET r == CurrentRun
           c == r.cluster_list[r.ci]
           skip == r.semantic_created >= r.max_clusters_to_summarize
                   \/ BelowUtility(c, r.snap)
           writes == ~skip /\ outcome \in {"created", "raise_after"}
           raises == ~skip /\ outcome \in {"raise_before", "raise_after"}
       IN  /\ skip => outcome = "none"
           /\ writes => next_id \in DOMAIN store
           /\ raises => fault
           /\ store' = IF writes THEN [store EXCEPT ![next_id] = SemanticRow(r.user)]
                       ELSE store
           /\ next_id' = IF writes THEN next_id + 1 ELSE next_id
           /\ fault' = IF raises THEN FALSE ELSE fault
           /\ runs' = [runs EXCEPT ![Len(runs)] =
                 IF r.semantic_created >= r.max_clusters_to_summarize
                 THEN [r EXCEPT !.pc = "delete"]
                 ELSE IF skip \/ outcome = "none" THEN AfterCluster(r)
                 ELSE IF outcome = "created"
                 THEN AfterCluster([r EXCEPT !.semantic_created = @ + 1,
                                             !.stored = Append(@, [ids |-> c, sem |-> next_id])])
                 ELSE IF outcome = "raise_after"
                 THEN [r EXCEPT !.pc = "raised",
                                !.stored = Append(@, [ids |-> c, sem |-> next_id]),
                                !.failed = @ \cup {next_id}]
                 ELSE [r EXCEPT !.pc = "raised", !.failed = @ \cup {next_id}]]
    /\ UNCHANGED <<queryVars, gcalls, trainVars, resp, builder, pipeline, jobVars>>

\* a delete loop that returns after its first memory
AfterMemoryReturns(r) ==
    [r EXCEPT !.pc = "returned",
              !.result = [clusters |-> Len(r.clusters),
                          semantic_created |-> r.semantic_created,
                          deleted |-> r.deleted]]

\* where the delete loop goes after the memory at di
AfterMemory(r) ==
    IF r.di = Len(r.memories)
    THEN [r EXCEPT !.pc = "returned",
                   !.result = [clusters |-> Len(r.clusters),
                               semantic_created |-> r.semantic_created,
                               deleted |-> r.deleted]]
    ELSE [r EXCEPT !.di = @ + 1]

(***************************************************************************)
(* sleep_worker.py 55-60: one turn of the delete loop over the memories    *)
(* loaded at the start, and the return after the last one.  store.delete   *)
(* may raise, and nothing in the loop catches it.  Its result (store.py    *)
(* 179: a row was deleted) is dropped: deleted counts the calls, removed   *)
(* logs the rows this sweep took out of the table.                         *)
(***************************************************************************)
DeleteStep(ok) ==
    /\ runs # <<>>
    /\ CurrentRun.pc = "delete"
    /\ LET r == CurrentRun
           m == r.memories[r.di]
           score == compute_retention(r.snap[m])
       IN  IF should_delete(score)
           THEN IF ok
                THEN /\ store' = [store EXCEPT ![m] = NoMem]
                     /\ runs' = [runs EXCEPT ![Len(runs)] =
                                   AfterMemory([r EXCEPT !.deleted = @ + 1,
                                                         !.removed = IF store[m].present
                                                                     THEN @ \cup {m}
                                                                     ELSE @])]
                     /\ fault' = fault
                ELSE /\ fault
                     /\ fault' = FALSE
                     /\ store' = store
                     /\ runs' = [runs EXCEPT ![Len(runs)] =
                                   [r EXCEPT !.pc = "raised", !.failed = @ \cup {m}]]
           ELSE /\ ok
                /\ store' = store
                /\ fault' = fault
                /\ runs' = [runs EXCEPT ![Len(runs)] = AfterMemory(r)]
    /\ next_id' = next_id
    /\ UNCHANGED <<queryVars, gcalls, trainVars, resp, builder, pipeline, jobVars>>

(***************************************************************************)
(* Initial states of a sweep: every memory 1..NumMem is missing or one of  *)
(*   a fresh episodic memory of u1 (Pi well above tau_delete),             *)
(*   an old, unused episodic memory of u1 (Pi below tau_delete),           *)
(*   a short episodic memory of u1 whose Pi is exactly tau_delete,         *)
(*   an old semantic memory of u1,                                         *)
(*   an old episodic memory of u1 stored without an embedding,             *)
(*   an old episodic memory of u2.                                         *)
(***************************************************************************)
SweepRows ==
    {NoMem,
     Row("u1", "episodic", 60, NoScore, 0, 0, 80, TRUE),
     Row("u1", "episodic", 60, NoScore, 30, 0, 20, TRUE),
     Row("u1", "episodic", 10, 0, 0, 0, 80, TRUE),
     Row("u1", "semantic", 60, NoScore, 30, 0, 20, TRUE),
     Row("u1", "episodic", 60, NoScore, 30, 0, 20, FALSE),
     Row("u2", "episodic", 60, NoScore, 30, 0, 20, TRUE)}

InitSweep ==
    /\ store \in {StoreOf(f) : f \in [MemIds -> SweepRows]}
    /\ bm25_index = NoIndex
    /\ graph_store = None
    /\ graph_edges = <<>>
    /\ graph_metrics = [m \in AllIds |-> NoMetrics]
    /\ mvn_model = None
    /\ query = [sim |-> [m \in AllIds |-> 50], bm |-> [m \in AllIds |-> 10],
                has_tokens |-> TRUE, has_entities |-> FALSE, intent |-> 3]
    /\ req = [user_id |-> "u1", k |-> MaxK, use_reranker |-> TRUE,
             rerank_top_k |-> rerank_top_k]
    /\ res = IdleRes
    /\ runs = <<>>
    /\ fault = TRUE
    /\ next_id = NumMem + 1
    /\ gcalls = <<>>
    /\ feedback_logs = <<>> /\ checkpoint = None /\ train = NoTrain
    /\ resp = NoResp
    /\ builder = NoCalls /\ pipeline = NoPipeline
    /\ job = NoJob /\ conn = NoConn

NextSweep ==
    \/ \E u \in Users : StartSweep(u)
    \/ \E o \in {"created", "none", "raise_before", "raise_after"} : SummarizeStep(o)
    \/ \E ok \in BOOLEAN : DeleteStep(ok)

(***************************************************************************)
(* The time-boxed graph lookup: GraphStore.get_memory_ids_near_entities.   *)
(*                                                                         *)
(* gcalls   the calls so far, the last one possibly in progress.  A call's *)
(*          record holds the caller's position, its worker thread and the  *)
(*          result_container the two share; both are locals of the call,   *)
(*          and a worker outlives its call when the join timed out.        *)
(***************************************************************************)
\* what a graph lookup leaves alone
graphFrame == <<store, bm25_index, graph_store, graph_edges, graph_metrics,
                mvn_model, query, req, runs, fault, next_id, trainVars, resp, builder, pipeline, jobVars>>

CurrentCall == gcalls[Len(gcalls)]

CallIdle == IF gcalls = <<>> THEN TRUE ELSE CurrentCall.pc = "fused"

Alive(w) == w \in {"running", "appended"}

\* graph_store.py 115-135: the caller starts the worker and joins it
Traverse ==
    /\ CallIdle
    /\ Len(gcalls) < MaxCalls
    /\ graph_store # None /\ query.has_entities
    /\ gcalls' = Append(gcalls,
            [pc |-> "joining", worker |-> "running", result_container |-> <<>>,
             expired |-> FALSE, answered |-> FALSE, ret |-> <<>>, raw |-> <<>>])
    /\ UNCHANGED <<res, graphFrame>>

\* graph_store.py 117-130: the query answers and the worker appends its list
WorkerAppend(c) ==
    /\ c \in 1 .. Len(gcalls)
    /\ gcalls[c].worker = "running"
    /\ gcalls' = [gcalls EXCEPT ![c].result_container = Append(@, graph_edges),
                                ![c].worker = "appended"]
    /\ UNCHANGED <<res, graphFrame>>

\* the worker leaves the session block and the thread ends
WorkerExit(c) ==
    /\ c \in 1 .. Len(gcalls)
    /\ gcalls[c].worker = "appended"
    /\ gcalls' = [gcalls EXCEPT ![c].worker = "dead"]
    /\ UNCHANGED <<res, graphFrame>>

\* the driver or the query raises: the thread ends without appending
WorkerRaise(c) ==
    /\ c \in 1 .. Len(gcalls)
    /\ gcalls[c].worker = "running"
    /\ gcalls' = [gcalls EXCEPT ![c].worker = "dead"]
    /\ UNCHANGED <<res, graphFrame>>

(***************************************************************************)
(* graph_store.py 135: thread.join(timeout=TRAVERSE_TIMEOUT_SEC) returns,  *)
(* at once if the worker has ended and else when the timeout expires.      *)
(* expired and answered record what the worker had done by then.           *)
(***************************************************************************)
JoinReturns ==
    /\ gcalls # <<>>
    /\ CurrentCall.pc = "joining"
    /\ gcalls' = [gcalls EXCEPT ![Len(gcalls)] =
                    [CurrentCall EXCEPT
                        !.pc = "check",
                        !.expired = Alive(CurrentCall.worker),
                        !.answered = CurrentCall.result_container # <<>>]]
    /\ UNCHANGED <<res, graphFrame>>

\* graph_store.py 136-138: the liveness test and the return
CheckAlive ==
    /\ gcalls # <<>>
    /\ CurrentCall.pc = "check"
    /\ gcalls' = [gcalls EXCEPT ![Len(gcalls)] =
                    [CurrentCall EXCEPT
                        !.pc = "returned",
                        !.ret = IF Alive(CurrentCall.worker) THEN <<>>
                                ELSE IF CurrentCall.result_container # <<>>
                                     THEN CurrentCall.result_container[1]
                                     ELSE <<>>]]
    /\ UNCHANGED <<res, graphFrame>>

\* hybrid_search.py 91-108 and what follows: the query goes on with the ids
Fuse ==
    /\ gcalls # <<>>
    /\ CurrentCall.pc = "returned"
    /\ LET out == retrieve_with_hybrid(store, bm25_index, graph_store, CurrentCall.ret,
                                       graph_metrics, mvn_model, query, req.user_id,
                                       req.k, req.use_reranker, req.rerank_top_k)
       IN  /\ res' = [pc |-> "done"] @@ out
           /\ gcalls' = [gcalls EXCEPT ![Len(gcalls)] =
                           [CurrentCall EXCEPT !.pc = "fused", !.raw = out.raw]]
    /\ UNCHANGED graphFrame

(***************************************************************************)
(* Initial states of the graph calls: two memories the vector search       *)
(* finds and the rest stored without an embedding, so that only the graph  *)
(* can bring them in; the graph's answer is any short list of ids.         *)
(***************************************************************************)
InitGraphCall ==
    /\ store = StoreOf([m \in MemIds |->
                          Row("u1", "episodic", 60, NoScore, 0, 0, 40, m <= 2)])
    /\ bm25_index = NoIndex
    /\ graph_store = "neo4j"
    /\ graph_edges \in DistinctSeqs(MemIds, MaxGraphIds)
    /\ graph_metrics = [m \in AllIds |-> NoMetrics]
    /\ mvn_model = None
    /\ query = [sim |-> [m \in AllIds |-> 20 + 10 * m], bm |-> [m \in AllIds |-> 10],
                has_tokens |-> TRUE, has_entities |-> TRUE, intent |-> 3]
    /\ req \in {[user_id |-> "u1", k |-> MaxK, use_reranker |-> r,
                 rerank_top_k |-> rerank_top_k] : r \in BOOLEAN}
    /\ res = IdleRes
    /\ runs = <<>> /\ fault = FALSE /\ next_id = NumMem + 1
    /\ gcalls = <<>>
    /\ feedback_logs = <<>> /\ checkpoint = None /\ train = NoTrain
    /\ resp = NoResp
    /\ builder = NoCalls /\ pipeline = NoPipeline
    /\ job = NoJob /\ conn = NoConn

CallerNext == Traverse \/ JoinReturns \/ CheckAlive \/ Fuse

WorkerNext == \E c \in 1 .. MaxCalls : WorkerAppend(c) \/ WorkerExit(c) \/ WorkerRaise(c)

NextGraphCall == CallerNext \/ WorkerNext

(***************************************************************************)
(* Training the scoring model (scripts/train_mvn.py, training/).           *)
(*                                                                         *)
(* A feedback record holds the ids a query retrieved, in order, and the    *)
(* ids the caller reported as used.  A training entry and a training       *)
(* sample keep the memory ids they were built from and the index of the    *)
(* record (log) they came from; the feature vectors are what               *)
(* build_mvn_features makes of the ids.                                    *)
(***************************************************************************)
max_negatives == 5      \* MVNDataset.build: negatives[:5]
synthetic_min_samples == 15    \* main: build_synthetic_samples(min_samples=15)
synthetic_max_memories == 150  \* main: build_synthetic_samples(max_memories=150)

\* records that retrieved up to MaxRetrieved memories, newest or oldest first,
\* and used none, one or all of the stored ids
FeedbackRecords ==
    {[retrieved_memory_ids |-> r, used_memory_ids |-> u] :
        r \in {AscSeq(S) : S \in {T \in SUBSET MemIds : Cardinality(T) <= MaxRetrieved}}
               \cup {DescSeq(S) : S \in {T \in SUBSET MemIds : Cardinality(T) <= MaxRetrieved}},
        u \in {{}, MemIds} \cup {{m} : m \in MemIds}}

\* mvn_dataset.py 59-81: the entry of one record with a non-empty retrieved list
BuildEntry(entry, i) ==
    LET retrieved == entry.retrieved_memory_ids
        used == entry.used_memory_ids
        isUsed(r) == r \in used
        notUsed(r) == r \notin used
        found_pos == SelectSeq(retrieved, isUsed)
        found_neg == SelectSeq(retrieved, notUsed)
        positives == IF found_pos = <<>> THEN <<retrieved[1]>> ELSE found_pos
        negatives == IF found_neg # <<>> THEN found_neg
                     ELSE IF Len(retrieved) >= 2 THEN <<retrieved[2]>>
                     ELSE <<retrieved[1]>>
    IN  [log |-> i, pos_memory_id |-> positives[1],
         neg_memory_ids |-> Take(negatives, max_negatives)]

\* MVNDataset.build
MVNDataset_build(logs) ==
    LET hasRetrieved(i) == logs[i].retrieved_memory_ids # <<>>
        kept == SelectSeq([i \in 1 .. Len(logs) |-> i], hasRetrieved)
    IN  [j \in 1 .. Len(kept) |-> BuildEntry(logs[kept[j]], kept[j])]

\* main's get_memory_fn: store.get_memory, no memory for a row that is gone
get_memory_fn(st, mid) == IF mid \in DOMAIN st THEN st[mid] ELSE NoMem

\* MVNDataset.build_feature_samples
build_feature_samples(logs, st) ==
    LET entries == MVNDataset_build(logs)
        resolves(mid) == get_memory_fn(st, mid).present
        sample(e) == [log |-> e.log, pos |-> e.pos_memory_id,
                      negs |-> SelectSeq(e.neg_memory_ids, resolves)]
        usable(e) == resolves(e.pos_memory_id) /\ sample(e).negs # <<>>
        kept == SelectSeq(entries, usable)
    IN  [j \in 1 .. Len(kept) |-> sample(kept[j])]

(***************************************************************************)
(* build_synthetic_samples: the memories with an embedding, each its own   *)
(* positive with up to five of the others as negatives.  random.shuffle    *)
(* and random.sample pick an order and, among more than five others, a     *)
(* subset; the stores of the model hold at most five others, so the set of *)
(* samples is the same for every outcome and the order is the listing's.   *)
(***************************************************************************)
build_synthetic_samples(st, min_samples, max_memories) ==
    LET rows == {m \in StoredIds(st) : st[m].has_emb}
        memories == Take(DescSeq(rows), max_memories)
        others(m) == LET notSelf(x) == x # m IN SelectSeq(memories, notSelf)
        samples == [j \in 1 .. Len(memories) |->
                      [log |-> 0, pos |-> memories[j],
                       negs |-> Take(others(memories[j]), max_negatives)]]
    IN  IF Cardinality(rows) < 2 THEN <<>> ELSE Take(samples, min_samples)

\* MVNTrainDataset: one pair for each negative of each sample
RECURSIVE NumPairs(_)
NumPairs(samples) ==
    IF samples = <<>> THEN 0 ELSE Len(samples[1].negs) + NumPairs(Tail(samples))

(***************************************************************************)
(* train_mvn: an empty dataset gives the freshly initialised network w0,   *)
(* anything else the weights w the descent ends in; either is written to   *)
(* save_path when one is given.                                            *)
(***************************************************************************)
train_mvn(train_samples, save_path, ckpt, w) ==
    LET model == IF NumPairs(train_samples) = 0 THEN "w0" ELSE w
    IN  [model |-> model, checkpoint |-> IF save_path THEN model ELSE ckpt]

\* a training script that has no synthetic path
main_feedback_only(logs, st, ckpt, w) ==
    LET entries == IF logs # <<>> THEN MVNDataset_build(logs) ELSE <<>>
        train_samples == IF entries # <<>> THEN build_feature_samples(logs, st) ELSE <<>>
        trained == train_mvn(train_samples, TRUE, ckpt, w)
    IN  IF train_samples = <<>>
        THEN [entries |-> entries, samples |-> <<>>, source |-> None, called |-> FALSE,
              model |-> None, exit |-> 0, checkpoint |-> ckpt]
        ELSE [entries |-> entries, samples |-> train_samples, source |-> "feedback",
              called |-> TRUE, model |-> trained.model, exit |-> 0,
              checkpoint |-> trained.checkpoint]

\* scripts/train_mvn.py main, from the read of the feedback log to the exit
main(logs, st, ckpt, w) ==
    LET entries == IF logs # <<>> THEN MVNDataset_build(logs) ELSE <<>>
        from_feedback == IF entries # <<>> THEN build_feature_samples(logs, st) ELSE <<>>
        train_samples == IF from_feedback # <<>> THEN from_feedback
                         ELSE build_synthetic_samples(st, synthetic_min_samples,
                                                      synthetic_max_memories)
        trained == train_mvn(train_samples, TRUE, ckpt, w)
    IN  IF train_samples = <<>>
        THEN [entries |-> entries, samples |-> <<>>, source |-> None, called |-> FALSE,
              model |-> None, exit |-> 0, checkpoint |-> ckpt]
        ELSE [entries |-> entries, samples |-> train_samples,
              source |-> IF from_feedback # <<>> THEN "feedback" ELSE "synthetic",
              called |-> TRUE, model |-> trained.model, exit |-> 0,
              checkpoint |-> trained.checkpoint]

TrainedWeights == {"w1", "w2"}

\* python scripts/train_mvn.py
RunTrainScript ==
    /\ train.runs < MaxTrainRuns
    /\ \E w \in TrainedWeights :
          LET r == main(feedback_logs, store, checkpoint, w)
          IN  /\ train' = [runs |-> train.runs + 1, entries |-> r.entries,
                           samples |-> r.samples, source |-> r.source,
                           called |-> r.called, model |-> r.model, exit |-> r.exit]
              /\ checkpoint' = r.checkpoint
    /\ UNCHANGED <<store, queryVars, sweepVars, gcalls, feedback_logs, resp, builder, pipeline, jobVars>>

\* the samples a direct caller of train_mvn hands over
CallerSamples == {<<>>, <<[log |-> 0, pos |-> 1, negs |-> <<2>>]>>}

\* train_mvn called as a library function, with or without a save_path
CallTrainMvn ==
    /\ train.runs < MaxTrainRuns
    /\ \E samples \in CallerSamples, save_path \in BOOLEAN, w \in TrainedWeights :
          LET r == train_mvn(samples, save_path, checkpoint, w)
          IN  /\ train' = [runs |-> train.runs + 1, entries |-> <<>>,
                           samples |-> samples, source |-> "caller", called |-> TRUE,
                           model |-> r.model, exit |-> None]
              /\ checkpoint' = r.checkpoint
    /\ UNCHANGED <<store, queryVars, sweepVars, gcalls, feedback_logs, resp, builder, pipeline, jobVars>>

(***************************************************************************)
(* server.py startup: the lexical index is built from the stored           *)
(* summaries, and the scoring model is loaded when CORTEX_MVN_CHECKPOINT   *)
(* is set: load_mvn loads whatever state_dict the file holds, a missing    *)
(* file raises and leaves no model.  No call is in progress afterwards.    *)
(***************************************************************************)
load_mvn(ckpt) == ckpt

Startup ==
    /\ \E env_checkpoint \in BOOLEAN :
          mvn_model' = IF env_checkpoint THEN load_mvn(checkpoint) ELSE None
    /\ bm25_index' = [loaded |-> TRUE, doc_ids |-> DescSeq(StoredIds(store))]
    /\ res' = IdleRes
    /\ UNCHANGED <<store, graph_store, graph_edges, graph_metrics, query, req,
                   sweepVars, gcalls, trainVars, resp, builder, pipeline, jobVars>>

InitTrain ==
    /\ store \in {StoreOf([m \in MemIds |->
                             IF m <= n THEN Row("u1", "episodic", 60, NoScore, 0, 0, 40, e)
                             ELSE NoMem]) : n \in 0 .. NumMem, e \in BOOLEAN}
    /\ feedback_logs \in {<<>>} \cup {<<r>> : r \in FeedbackRecords}
    /\ checkpoint = None
    /\ train = NoTrain
    /\ resp = NoResp
    /\ builder = NoCalls /\ pipeline = NoPipeline
    /\ job = NoJob /\ conn = NoConn
    /\ bm25_index = NoIndex
    /\ graph_store = None
    /\ graph_edges = <<>>
    /\ graph_metrics = [m \in AllIds |-> NoMetrics]
    /\ mvn_model = None
    /\ query = [sim |-> [m \in AllIds |-> 20 + 10 * m], bm |-> [m \in AllIds |-> 10],
                has_tokens |-> TRUE, has_entities |-> FALSE, intent |-> 3]
    /\ req = [user_id |-> "u1", k |-> MaxK, use_reranker |-> TRUE,
             rerank_top_k |-> rerank_top_k]
    /\ res = IdleRes
    /\ runs = <<>> /\ fault = FALSE /\ next_id = NumMem + 1
    /\ gcalls = <<>>

NextTrain == RunTrainScript \/ CallTrainMvn \/ Startup \/ QueryMemory

(***************************************************************************)
(* The endpoints of routes_memory.py.  Each action is one request, from    *)
(* the validation of its parameters to the response.  An exception that    *)
(* no handler catches leaves the framework to answer 500.                  *)
(***************************************************************************)
\* an importance inside and one above [0, 1]
ImportanceInputs == {60, 150}

\* Field(ge=0, le=1) of AddMemoryBody and MemoryBase
ValidImportance(x) == 0 <= x /\ x <= 100

\* ?user= absent, the id of a user, a string UUID() rejects
UserInputs == {None, "u1", "not-a-uuid"}

ParsesAsUUID(s) == s \in Users

\* the parameters the logging functions declare
log_retrieval_params == {"latency_ms", "k", "user_id"}
log_memory_add_params == {"memory_id", "user_id"}

\* a call with a keyword argument the function does not declare raises TypeError
RaisesTypeError(params, keywords) == ~(keywords \subseteq params)

\* memory_from_row: Memory(...) validates importance and raises on a row outside [0, 1]
Readable(row) == ValidImportance(row.importance)

\* POST /memory/add
add_memory ==
    /\ next_id <= NumMem + MaxCreated
    /\ \E user \in UserInputs, importance \in ImportanceInputs :
          IF IF ValidImportance(importance) THEN ~ParsesAsUUID(user) ELSE TRUE
          THEN /\ resp' = [endpoint |-> "add", status |-> 422]
               /\ UNCHANGED <<store, next_id>>
          ELSE /\ store' = [store EXCEPT ![next_id] =
                               Row(user, "episodic", importance, NoScore, 0, 0, 40, TRUE)]
               /\ next_id' = next_id + 1
               /\ resp' = [endpoint |-> "add",
                           status |-> IF RaisesTypeError(log_memory_add_params,
                                                         {"latency_ms"})
                                      THEN 500 ELSE 200]
    /\ UNCHANGED <<queryVars, runs, fault, gcalls, trainVars, builder, pipeline, jobVars>>

\* normalize.py 44-45
clamp_importance(x) == Max(0, Min(100, x))

\* POST /memory/ingest of a conversation the extractor finds one memory in
ingest_memory ==
    /\ next_id <= NumMem + MaxCreated
    /\ \E user \in UserInputs \ {None}, importance \in ImportanceInputs :
          IF ~ParsesAsUUID(user)
          THEN /\ resp' = [endpoint |-> "ingest", status |-> 422]
               /\ UNCHANGED <<store, next_id>>
          ELSE /\ store' = [store EXCEPT ![next_id] =
                               Row(user, "episodic", clamp_importance(importance),
                                   NoScore, 0, 0, 40, TRUE)]
               /\ next_id' = next_id + 1
               /\ resp' = [endpoint |-> "ingest", status |-> 200]
    /\ UNCHANGED <<queryVars, runs, fault, gcalls, trainVars, builder, pipeline, jobVars>>

\* MemoryStore.update: the row's importance is set to the value as given
update(st, mid, with_importance, importance) ==
    IF st[mid].present /\ with_importance
    THEN [st EXCEPT ![mid].importance = importance]
    ELSE st

\* the requests of a PATCH: an id that does not parse, or an id with a body
\* that holds nothing, a summary, or an importance
PatchRequests ==
    {[parses |-> FALSE, mid |-> 1, with_summary |-> TRUE, with_importance |-> FALSE,
      importance |-> 0]}
    \cup {[parses |-> TRUE, mid |-> m, with_summary |-> w, with_importance |-> FALSE,
           importance |-> 0] : m \in AllIds, w \in BOOLEAN}
    \cup {[parses |-> TRUE, mid |-> m, with_summary |-> FALSE, with_importance |-> TRUE,
           importance |-> i] : m \in AllIds, i \in ImportanceInputs}

\* PATCH /memory/{id}
patch_memory ==
    /\ \E body \in PatchRequests :
          IF IF body.parses THEN ~body.with_summary /\ ~body.with_importance ELSE TRUE
          THEN /\ resp' = [endpoint |-> "patch", status |-> 422]
               /\ store' = store
          ELSE /\ store' = update(store, body.mid, body.with_importance, body.importance)
               /\ resp' = [endpoint |-> "patch",
                           status |-> IF store[body.mid].present THEN 200 ELSE 404]
    /\ UNCHANGED <<queryVars, sweepVars, gcalls, trainVars, builder, pipeline, jobVars>>

\* the feedback a caller posts: one retrieved memory, used or not
FeedbackInputs ==
    {r \in FeedbackRecords :
        Len(r.retrieved_memory_ids) = 1
        /\ r.used_memory_ids \subseteq {r.retrieved_memory_ids[1]}}

\* POST /memory/feedback: update_usage of every used id, then the log row
feedback ==
    /\ Len(feedback_logs) < MaxFeedback
    /\ \E rec \in FeedbackInputs :
          /\ store' = [m \in DOMAIN store |->
                         IF m \in rec.used_memory_ids /\ store[m].present
                         THEN [store[m] EXCEPT !.usage_count = @ + 1, !.age = 0]
                         ELSE store[m]]
          /\ feedback_logs' = <<rec>> \o feedback_logs
    /\ resp' = [endpoint |-> "feedback", status |-> 200]
    /\ UNCHANGED <<queryVars, sweepVars, gcalls, checkpoint, train, builder, pipeline, jobVars>>

(***************************************************************************)
(* GET /memory/query.  k outside 1..100 is refused by the framework; q is  *)
(* required and may be empty; UUID(user) is called outside any try.  The   *)
(* empty query has no token and no entity.  After retrieve_with_hybrid     *)
(* returns, log_retrieval is called with a timings keyword, and only then  *)
(* the candidates are made into the response body.  ran tells whether      *)
(* retrieve_with_hybrid was entered; what it computed is local to the      *)
(* handler and is gone when the handler raises.                            *)
(***************************************************************************)
query_memory ==
    /\ \E q \in {"", "text"}, user \in UserInputs, k \in {0, MaxK} :
          LET request == [endpoint |-> "query", q |-> q, user |-> user, k |-> k,
                          nonempty |-> StoredIds(store) # {}]
              asked == IF q = ""
                       THEN [query EXCEPT !.has_tokens = FALSE, !.has_entities = FALSE]
                       ELSE query
              found == retrieve_with_hybrid(store, bm25_index, graph_store, graph_edges,
                                            graph_metrics, mvn_model, asked, user, k,
                                            TRUE, rerank_top_k)
              unreadable == \E m \in StoredIds(store) :
                                /\ user # None => store[m].owner = user
                                /\ ~Readable(store[m])
          IN  resp' = request @@
                  IF k < 1
                  THEN [status |-> 422, ran |-> FALSE, error |-> "validation",
                        body |-> <<>>]
                  ELSE IF IF user = None THEN FALSE ELSE ~ParsesAsUUID(user)
                  THEN [status |-> 500, ran |-> FALSE, error |-> "ValueError",
                        body |-> <<>>]
                  ELSE IF unreadable
                  THEN [status |-> 500, ran |-> TRUE, error |-> "ValidationError",
                        body |-> <<>>]
                  ELSE IF RaisesTypeError(log_retrieval_params, {"timings"})
                  THEN [status |-> 500, ran |-> TRUE, error |-> "TypeError",
                        body |-> <<>>]
                  ELSE [status |-> 200, ran |-> TRUE, error |-> None,
                        body |-> SeqIds(found.out)]
    /\ UNCHANGED <<store, queryVars, sweepVars, gcalls, trainVars, builder, pipeline, jobVars>>

\* run_consolidation loads the user's rows through memory_from_row; one sweep
\* runs among the requests
SweepOf(u) ==
    /\ runs = <<>>
    /\ \A m \in StoredIds(store) : store[m].owner = u => Readable(store[m])
    /\ StartSweep(u)

\* a store of three memories of one user, two of them old and short
InitStore ==
    /\ store = StoreOf([m \in MemIds |->
                          Row("u1", "episodic", 60, NoScore,
                              IF m = 1 THEN 0 ELSE 30, 0, IF m = 1 THEN 80 ELSE 20, TRUE)])
    /\ bm25_index = NoIndex
    /\ graph_store = None
    /\ graph_edges = <<>>
    /\ graph_metrics = [m \in AllIds |-> NoMetrics]
    /\ mvn_model = None
    /\ query = [sim |-> [m \in AllIds |-> 20 + 10 * m], bm |-> [m \in AllIds |-> 10],
                has_tokens |-> TRUE, has_entities |-> FALSE, intent |-> 3]
    /\ req = [user_id |-> "u1", k |-> MaxK, use_reranker |-> TRUE,
             rerank_top_k |-> rerank_top_k]
    /\ res = IdleRes
    /\ runs = <<>> /\ fault = FALSE /\ next_id = NumMem + 1
    /\ gcalls = <<>>
    /\ feedback_logs = <<>> /\ checkpoint = None /\ train = NoTrain
    /\ resp = NoResp
    /\ builder = NoCalls /\ pipeline = NoPipeline
    /\ job = NoJob /\ conn = NoConn

NextStore ==
    \/ add_memory
    \/ ingest_memory
    \/ patch_memory
    \/ feedback
    \/ \E u \in Users : SweepOf(u)
    \/ \E o \in {"created", "none"} : SummarizeStep(o)
    \/ DeleteStep(TRUE)

(***************************************************************************)
(* The states a query request finds: each memory missing, stored, or       *)
(* stored with an importance a PATCH has put above 1; the lexical index,   *)
(* the graph store and the scoring model each present or absent.           *)
(***************************************************************************)
InitQuery ==
    /\ store \in {StoreOf(f) :
                    f \in [MemIds -> {NoMem,
                                      Row("u1", "episodic", 60, NoScore, 0, 0, 40, TRUE),
                                      Row("u1", "episodic", 150, NoScore, 0, 0, 40, TRUE)}]}
    /\ bm25_index \in {NoIndex, [loaded |-> TRUE, doc_ids |-> DescSeq(MemIds)]}
    /\ graph_store \in {None, "neo4j"}
    /\ graph_edges = <<>>
    /\ graph_metrics = [m \in AllIds |-> NoMetrics]
    /\ mvn_model \in {None, "w1"}
    /\ query = [sim |-> [m \in AllIds |-> 20 + 10 * m], bm |-> [m \in AllIds |-> 10],
                has_tokens |-> TRUE, has_entities |-> FALSE, intent |-> 3]
    /\ req = [user_id |-> "u1", k |-> MaxK, use_reranker |-> TRUE,
             rerank_top_k |-> rerank_top_k]
    /\ res = IdleRes
    /\ runs = <<>> /\ fault = FALSE /\ next_id = NumMem + 1
    /\ gcalls = <<>>
    /\ feedback_logs = <<>> /\ checkpoint = None /\ train = NoTrain
    /\ resp = NoResp
    /\ builder = NoCalls /\ pipeline = NoPipeline
    /\ job = NoJob /\ conn = NoConn

NextQuery == query_memory

(***************************************************************************)
(* The feature builder and its callers.  A call is recorded with its       *)
(* arguments, the clock when it was made and the vector it returned.  The  *)
(* rows' ages were read at clock 0: a row read `days` later is that much   *)
(* older.                                                                  *)
(***************************************************************************)
\* the longest the clock runs, in weeks
MaxWeeks == 1

Aged(st, days) ==
    [m \in DOMAIN st |-> IF st[m].present THEN [st[m] EXCEPT !.age = @ + days]
                         ELSE st[m]]

\* _recency_score: exp(-0.1 * days since last_used), the clock read in the call
recency_score(mem, now) == ExpDecay(mem.age + now)

\* _entity_overlap(extract_entities(query), mem.entities)
entity_overlap(q, mid) == IF q.has_entities THEN q.entity_overlap[mid] ELSE 0

\* build_mvn_features on the Memory path (mvn_features.py 66-75, 78-94)
build_mvn_features_memory(q, mid, mem, now, pagerank, graph_distance, intent_type) ==
    LET similarity == IF mem.has_emb THEN q.sim[mid] ELSE 0
        recency == recency_score(mem, now)
        importance == ImportanceOr(mem)
        usage == mem.usage_count
        usage_norm == IF usage # 0 THEN Min(100, 10 * usage) ELSE 0
        emotion_intensity == IF mem.emotion THEN 50 ELSE 0
    IN  <<similarity, recency, importance, usage_norm, pagerank,
          entity_overlap(q, mid), emotion_intensity, similarity, 50,
          graph_distance, 25 * intent_type>>

\* build_mvn_features with neither a candidate nor a memory (76-77)
build_mvn_features_neither == <<>>

\* candidate=None
NoCandidate ==
    [id |-> 0, similarity |-> 0, recency |-> 0, importance |-> 0, pagerank |-> 0,
     entity_overlap |-> 0, bm25_score |-> 0, temporal_score |-> 0,
     from_graph |-> FALSE, graph_score |-> 0, mvn_score |-> NoScore,
     final_score |-> NoScore]

\* score_candidates 32-40: one call for every candidate of the pool
features_list(st, idx, gstore, gids, gm, q, user_id, now) ==
    LET fused == retrieve_candidates(Aged(st, now), idx, gstore, gids, q, user_id,
                                     top_k1, top_k2, merge_cap)
        candidates == build_candidates(WithGraphMetrics(fused.raw, gm))
    IN  {[path |-> "candidate", mid |-> candidates[i].id,
          candidate |-> candidates[i], memory |-> FALSE,
          pagerank |-> candidates[i].pagerank,
          graph_distance |-> candidates[i].graph_score,
          intent_type |-> q.intent, now |-> now,
          out |-> build_mvn_features(q, candidates[i], st[candidates[i].id],
                                     candidates[i].pagerank,
                                     candidates[i].graph_score, q.intent)] :
            i \in 1 .. Len(candidates)}

\* a query is ranked: score_candidates builds the features of its candidates
ScoreCandidates ==
    /\ builder' = [builder EXCEPT !.calls =
                      @ \cup features_list(store, bm25_index, graph_store, graph_edges,
                                           graph_metrics, query, req.user_id,
                                           builder.now)]
    /\ UNCHANGED <<store, queryVars, sweepVars, gcalls, trainVars, resp, pipeline, jobVars>>

\* build_feature_samples 101-107 and build_synthetic_samples 53-59: the call
\* made for a memory the store resolves
BuildFeatureSample(mid) ==
    /\ store[mid].present
    /\ builder' = [builder EXCEPT !.calls =
                      @ \cup {[path |-> "memory", mid |-> mid,
                               candidate |-> NoCandidate, memory |-> TRUE,
                               pagerank |-> 0, graph_distance |-> 0,
                               intent_type |-> query.intent, now |-> builder.now,
                               out |-> build_mvn_features_memory(query, mid, store[mid],
                                           builder.now, 0, 0, query.intent)]}]
    /\ UNCHANGED <<store, queryVars, sweepVars, gcalls, trainVars, resp, pipeline, jobVars>>

\* build_mvn_features(query): the two optional sources left out
BuildFeaturesOfQuery ==
    /\ builder' = [builder EXCEPT !.calls =
                      @ \cup {[path |-> "neither", mid |-> 0,
                               candidate |-> NoCandidate, memory |-> FALSE,
                               pagerank |-> 0, graph_distance |-> 0,
                               intent_type |-> query.intent, now |-> builder.now,
                               out |-> build_mvn_features_neither]}]
    /\ UNCHANGED <<store, queryVars, sweepVars, gcalls, trainVars, resp, pipeline, jobVars>>

\* a week passes
Week ==
    /\ builder.now < 7 * MaxWeeks
    /\ builder' = [builder EXCEPT !.now = @ + 7]
    /\ UNCHANGED <<store, queryVars, sweepVars, gcalls, trainVars, resp, pipeline, jobVars>>

(***************************************************************************)
(* Initial states of the feature builder's callers: a store of one user    *)
(* whose first row varies in importance, age and embedding, the            *)
(* centrality cache empty or holding a pagerank for the last row, and a    *)
(* query that names no entity or one the first row also names.             *)
(***************************************************************************)
InitFeatures ==
    /\ store \in {StoreOf([m \in MemIds |->
                     IF m = 1 THEN Row("u1", "episodic", i, NoScore, a, 3, 40, e)
                     ELSE Row("u1", "episodic", 60, NoScore, 7, 0, 40, TRUE)]) :
                    i \in {0, 60}, a \in {0, 7}, e \in BOOLEAN}
    /\ bm25_index \in {NoIndex, [loaded |-> TRUE, doc_ids |-> DescSeq(MemIds)]}
    /\ graph_store = None
    /\ graph_edges = <<>>
    /\ query \in {[sim |-> [m \in AllIds |-> 20 + 10 * m],
                   bm |-> [m \in AllIds |-> 10 * m],
                   has_tokens |-> TRUE, has_entities |-> h,
                   entity_overlap |-> [m \in AllIds |-> IF h /\ m = 1 THEN 100 ELSE 0],
                   intent |-> 3] : h \in BOOLEAN}
    /\ graph_metrics \in {[m \in AllIds |-> NoMetrics],
                          [m \in AllIds |-> [cached |-> m \in MemIds,
                                             pagerank |-> IF m = NumMem THEN 2 ELSE 0,
                                             degree |-> IF m = NumMem THEN 1 ELSE 0]]}
    /\ mvn_model = "w1"
    /\ req = [user_id |-> "u1", k |-> MaxK, use_reranker |-> TRUE,
              rerank_top_k |-> rerank_top_k]
    /\ res = IdleRes
    /\ runs = <<>> /\ fault = FALSE /\ next_id = NumMem + 1
    /\ gcalls = <<>>
    /\ feedback_logs = <<>> /\ checkpoint = None /\ train = NoTrain
    /\ resp = NoResp
    /\ builder = NoCalls /\ pipeline = NoPipeline
    /\ job = NoJob /\ conn = NoConn

NextFeatures ==
    \/ ScoreCandidates
    \/ \E mid \in MemIds : BuildFeatureSample(mid)
    \/ BuildFeaturesOfQuery
    \/ Week

(***************************************************************************)
(* Two concurrent retrieve_with_hybrid calls.  Every call keeps raw,       *)
(* candidates and its result in local variables; the calls share the       *)
(* store, the lexical index (whose _bm25 is built by the first search that *)
(* finds it missing) and the scoring model (which every scoring puts in    *)
(* eval mode).  overlapped records that a call took a step while another   *)
(* call was between its first and its last step.                           *)
(***************************************************************************)
\* the calls in flight together
NumCalls == 2

CallIds == 1 .. NumCalls

StartCall(user_id, k, use_reranker, rr_top_k) ==
    [pc |-> "start", user_id |-> user_id, k |-> k, use_reranker |-> use_reranker,
     rerank_top_k |-> rr_top_k, raw |-> <<>>, candidates |-> <<>>, out |-> <<>>,
     overlapped |-> FALSE]

\* one list of candidates for all calls
AssignCandidates_module(p, i, cands) ==
    [p EXCEPT !.local = [j \in DOMAIN p.local |->
                            [p.local[j] EXCEPT !.candidates = cands]]]

\* retrieval_pipeline.py 58, 63, 78: candidates is a local variable of the call
AssignCandidates(p, i, cands) ==
    [p EXCEPT !.local[i].candidates = cands]

\* BM25Index.search 38-41: the scorer is built when the corpus has no scorer yet
bm25_after_search(built, idx) ==
    IF idx.loaded /\ idx.doc_ids # <<>> THEN TRUE ELSE built

\* the next step of call i: what it reads, and what it leaves in the pipeline
retrieve_with_hybrid_step(p, i, st, idx, gstore, gids, gm, model, q) ==
    LET c == p.local[i]
        ticked == [p EXCEPT !.local[i].overlapped =
                                IF c.overlapped THEN TRUE
                                ELSE \E j \in DOMAIN p.local \ {i} :
                                        p.local[j].pc \notin {"start", "done"}]
    IN  CASE c.pc = "start" ->
               LET fused == retrieve_candidates(st, idx, gstore, gids, q, c.user_id,
                                                top_k1, top_k2, merge_cap)
               IN  [ticked EXCEPT !.local[i].pc = "fetched",
                                  !.local[i].raw = fused.raw,
                                  !.shared.bm25_built =
                                      bm25_after_search(p.shared.bm25_built, idx)]
          [] c.pc = "fetched" ->
               AssignCandidates([ticked EXCEPT !.local[i].pc = "built"], i,
                                build_candidates(WithGraphMetrics(c.raw, gm)))
          [] c.pc = "built" ->
               LET scored == score_candidates(q, c.candidates, model, st)
                   blended == [n \in 1 .. Len(scored.cands) |->
                                 [scored.cands[n] EXCEPT
                                     !.final_score = FirstPassScore(scored.cands[n])]]
               IN  AssignCandidates(
                       [ticked EXCEPT !.local[i].pc = "ranked",
                                      !.shared.eval_mode =
                                          IF scored.calls > 0 THEN TRUE ELSE @],
                       i, SortByFinal(blended))
          [] OTHER ->
               LET top_20 == Take(c.candidates, RerankSlice)
               IN  [ticked EXCEPT !.local[i].pc = "done",
                                  !.local[i].out =
                                      IF c.use_reranker /\ top_20 # <<>>
                                      THEN rerank(top_20, Min(c.rerank_top_k, c.k))
                                      ELSE Take(c.candidates, c.k)]

CallStep(i) ==
    /\ pipeline.local[i].pc # "done"
    /\ pipeline' = retrieve_with_hybrid_step(pipeline, i, store, bm25_index,
                                             graph_store, graph_edges, graph_metrics,
                                             mvn_model, query)
    /\ UNCHANGED <<store, queryVars, sweepVars, gcalls, trainVars, resp, builder, jobVars>>

(***************************************************************************)
(* Initial states of two concurrent calls: a store of two users, the graph *)
(* absent, or answering with the last row whose pagerank is cached, a      *)
(* model loaded or not, the index's scorer built (build) or not yet (add), *)
(* and calls that may differ in owner, k and use_reranker.                 *)
(***************************************************************************)
InitConcurrent ==
    /\ store \in {StoreOf([m \in MemIds |->
                     Row(IF m = 1 THEN u ELSE "u1", "episodic", 60, NoScore,
                         IF m = 2 THEN 30 ELSE 0, 0, 40, TRUE)]) :
                    u \in Users}
    /\ bm25_index = [loaded |-> TRUE, doc_ids |-> DescSeq(MemIds)]
    /\ \E g \in {<<None, <<>>, [m \in AllIds |-> NoMetrics]>>,
                 <<"neo4j", <<NumMem>>,
                   [m \in AllIds |-> [cached |-> m \in MemIds,
                                      pagerank |-> IF m = NumMem THEN 2 ELSE 0,
                                      degree |-> IF m = NumMem THEN 1 ELSE 0]]>>} :
          graph_store = g[1] /\ graph_edges = g[2] /\ graph_metrics = g[3]
    /\ query = [sim |-> [m \in AllIds |-> 90 - 20 * m], bm |-> [m \in AllIds |-> 10 * m],
                has_tokens |-> TRUE, has_entities |-> TRUE, intent |-> 3]
    /\ mvn_model \in {None, "w2"}
    /\ req = [user_id |-> "u1", k |-> MaxK, use_reranker |-> TRUE,
              rerank_top_k |-> rerank_top_k]
    /\ res = IdleRes
    /\ runs = <<>> /\ fault = FALSE /\ next_id = NumMem + 1
    /\ gcalls = <<>>
    /\ feedback_logs = <<>> /\ checkpoint = None /\ train = NoTrain
    /\ resp = NoResp
    /\ builder = NoCalls
    /\ job = NoJob /\ conn = NoConn
    /\ \E b \in BOOLEAN :
       \E f \in [CallIds -> {StartCall(u, k, r, rerank_top_k) :
                               u \in {None, "u1", "u2"}, k \in {1, MaxK}, r \in BOOLEAN}] :
          /\ f[1] = StartCall("u1", MaxK, TRUE, rerank_top_k)
          /\ \A i \in CallIds \ {1} : f[i].user_id # "u1"
          /\ pipeline = [shared |-> [bm25_built |-> b, eval_mode |-> FALSE],
                         local |-> f]

NextConcurrent == \E i \in CallIds : CallStep(i)

(***************************************************************************)
(* Fusion under small limits, after deletions.  The delete endpoint        *)
(* removes the row and nothing else: the lexical index built at startup    *)
(* and the graph keep the id.                                              *)
(***************************************************************************)
\* a delete that leaves the row in the table
delete_keeps_row(st, mid) == st

\* MemoryStore.delete: DELETE FROM memories WHERE id = ..
delete(st, mid) == [st EXCEPT ![mid] = NoMem]

\* DELETE /memory/{id}: 200 when a row was deleted, else 404
delete_memory(mid) ==
    /\ res.pc = "idle"
    /\ store' = delete(store, mid)
    /\ resp' = [endpoint |-> "delete", memory_id |-> mid,
                status |-> IF store[mid].present THEN 200 ELSE 404]
    /\ UNCHANGED <<queryVars, sweepVars, gcalls, trainVars, builder, pipeline, jobVars>>

\* retrieve_candidates called with limits of the caller's choice
RetrieveCandidates(k1, k2, cap) ==
    /\ res.pc = "idle"
    /\ res' = [pc |-> "fused", top_k1 |-> k1, top_k2 |-> k2, merge_cap |-> cap,
               ranked |-> <<>>, out |-> <<>>, model_calls |-> 0] @@
              retrieve_candidates(store, bm25_index, graph_store, graph_edges, query,
                                  req.user_id, k1, k2, cap)
    /\ UNCHANGED <<store, bm25_index, graph_store, graph_edges, graph_metrics,
                   mvn_model, query, req, sweepVars, gcalls, trainVars, resp,
                   builder, pipeline, jobVars>>

(***************************************************************************)
(* Initial states: rows of two users or none, the lexical index absent or  *)
(* listing every id ever stored, a graph store absent or holding edges to  *)
(* rows, and a query with or without entities.                             *)
(***************************************************************************)
InitFuse ==
    /\ store \in {StoreOf(f) :
                    f \in [MemIds -> {NoMem} \cup
                                     {Row(u, "episodic", 60, NoScore, 0, 0, 40, TRUE) : u \in Users}]}
    /\ bm25_index \in {NoIndex, [loaded |-> TRUE, doc_ids |-> DescSeq(MemIds)]}
    /\ \E g \in {<<None, TRUE, <<NumMem, 1>> >>, <<"neo4j", FALSE, <<NumMem, 1>> >>,
                 <<"neo4j", TRUE, <<NumMem, 1>> >>, <<"neo4j", TRUE, <<2>> >>} :
          /\ graph_store = g[1]
          /\ graph_edges = g[3]
          /\ query = [sim |-> [m \in AllIds |-> IF m = 1 THEN 80 ELSE 20 + 10 * m],
                      bm |-> [m \in AllIds |-> 10 * m],
                      has_tokens |-> TRUE, has_entities |-> g[2], intent |-> 3]
    /\ graph_metrics = [m \in AllIds |-> NoMetrics]
    /\ mvn_model = None
    /\ req \in {[user_id |-> u, k |-> MaxK, use_reranker |-> TRUE,
                 rerank_top_k |-> rerank_top_k] : u \in {None, "u1"}}
    /\ res = IdleRes
    /\ runs = <<>> /\ fault = FALSE /\ next_id = NumMem + 1
    /\ gcalls = <<>>
    /\ feedback_logs = <<>> /\ checkpoint = None /\ train = NoTrain
    /\ resp = NoResp
    /\ builder = NoCalls /\ pipeline = NoPipeline
    /\ job = NoJob /\ conn = NoConn

NextFuse ==
    \/ \E mid \in MemIds : delete_memory(mid)
    \/ \E k1 \in {1, top_k1}, k2 \in {1, top_k2}, cap \in {1, 2, merge_cap} :
          RetrieveCandidates(k1, k2, cap)
    \/ QueryMemory

(***************************************************************************)
(* Sweeps called with a minimum cluster size and a cap of the caller's     *)
(* choice, over memories of high utility (importance 0.6 or 0.9) and of    *)
(* utility below cluster_utility_threshold.  No write fails.               *)
(***************************************************************************)
InitSummarize ==
    /\ store \in {[m \in 1 .. (NumMem + MaxSweeps * NumMem) |->
                     IF m \in MemIds THEN f[m] ELSE NoMem] :
                    f \in [MemIds -> {NoMem,
                                      Row("u1", "episodic", 60, NoScore, 0, 0, 40, TRUE),
                                      Row("u1", "episodic", 90, NoScore, 0, 0, 40, TRUE),
                                      Row("u1", "episodic", 10, 0, 0, 0, 80, TRUE)}]}
    /\ bm25_index = NoIndex
    /\ graph_store = None
    /\ graph_edges = <<>>
    /\ graph_metrics = [m \in AllIds |-> NoMetrics]
    /\ mvn_model = None
    /\ query = [sim |-> [m \in AllIds |-> 50], bm |-> [m \in AllIds |-> 10],
                has_tokens |-> TRUE, has_entities |-> FALSE, intent |-> 3]
    /\ req = [user_id |-> "u1", k |-> MaxK, use_reranker |-> TRUE,
             rerank_top_k |-> rerank_top_k]
    /\ res = IdleRes
    /\ runs = <<>>
    /\ fault = FALSE
    /\ next_id = NumMem + 1
    /\ gcalls = <<>>
    /\ feedback_logs = <<>> /\ checkpoint = None /\ train = NoTrain
    /\ resp = NoResp
    /\ builder = NoCalls /\ pipeline = NoPipeline
    /\ job = NoJob /\ conn = NoConn

(***************************************************************************)
(* Sweeps of a store that DELETE /memory/{id} requests write to between    *)
(* the sweep's steps: every memory is missing, fresh (Pi above tau_delete) *)
(* or old and unused (Pi below tau_delete).  No write fails.               *)
(***************************************************************************)
InitCounts ==
    /\ store \in {StoreOf(f) :
                    f \in [MemIds -> {NoMem,
                                      Row("u1", "episodic", 60, NoScore, 0, 0, 80, TRUE),
                                      Row("u1", "episodic", 60, NoScore, 30, 0, 20, TRUE)}]}
    /\ bm25_index = NoIndex
    /\ graph_store = None
    /\ graph_edges = <<>>
    /\ graph_metrics = [m \in AllIds |-> NoMetrics]
    /\ mvn_model = None
    /\ query = [sim |-> [m \in AllIds |-> 50], bm |-> [m \in AllIds |-> 10],
                has_tokens |-> TRUE, has_entities |-> FALSE, intent |-> 3]
    /\ req = [user_id |-> "u1", k |-> MaxK, use_reranker |-> TRUE,
             rerank_top_k |-> rerank_top_k]
    /\ res = IdleRes
    /\ runs = <<>>
    /\ fault = FALSE
    /\ next_id = NumMem + 1
    /\ gcalls = <<>>
    /\ feedback_logs = <<>> /\ checkpoint = None /\ train = NoTrain
    /\ resp = NoResp
    /\ builder = NoCalls /\ pipeline = NoPipeline
    /\ job = NoJob /\ conn = NoConn

NextCounts ==
    \/ StartSweep("u1")
    \/ \E o \in {"created", "none"} : SummarizeStep(o)
    \/ DeleteStep(TRUE)
    \/ \E mid \in MemIds : delete_memory(mid)

\* run_consolidation called with its own limits on a store no sweep has touched
FirstSweep(u, min_size, max_to_summarize) ==
    /\ runs = <<>>
    /\ BeginSweep(u, min_size, max_to_summarize)

NextSummarize ==
    \/ \E n \in {1, min_cluster_size}, c \in {1, max_clusters_to_summarize} :
          FirstSweep("u1", n, c)
    \/ \E o \in {"created", "none"} : SummarizeStep(o)
    \/ DeleteStep(TRUE)

(***************************************************************************)
(* The background consolidation job (scheduler.py 11-26) on the shared     *)
(* connection.  psycopg2 opens a transaction with the first statement; a   *)
(* statement that fails leaves the transaction aborted, and every later    *)
(* statement on the connection raises until someone calls rollback.  The   *)
(* store never does (store.py closes the cursor and lets the error pass);  *)
(* the rollback middleware of the HTTP server does, once per request.      *)
(***************************************************************************)
\* store.get_user_ids(limit=50) in the job
get_user_ids_limit == 50

\* the distinct owners of the rows of the table
Owners(st) == {st[m].owner : m \in StoredIds(st)}

\* the members of S in the order of the list
RECURSIVE InOrder(_, _)
InOrder(scan, S) ==
    IF scan = <<>> THEN <<>>
    ELSE (IF scan[1] \in S THEN <<scan[1]>> ELSE <<>>) \o InOrder(Tail(scan), S)

\* SELECT DISTINCT user_id FROM memories LIMIT limit: there is no ORDER BY,
\* so the owners come in the order in which the plan the database chose
\* meets them (scan), and the first limit of them are returned
get_user_ids(st, scan, limit) == Take(InOrder(scan, Owners(st)), limit)

\* the list backwards
Backwards(s) == [i \in 1 .. Len(s) |-> s[Len(s) + 1 - i]]

\* run_consolidation from its first line to its return when nothing raises
\* and llm_summarize answers for every cluster
run_consolidation(st, u, nid) ==
    LET memories == get_user_memories(st, u, SweepLimit)
        loaded == {memories[i] : i \in 1 .. Len(memories)}
        snap == [m \in loaded |-> st[m]]
        episodic == Filter(memories, {m \in loaded :
                                        snap[m].type = "episodic" /\ snap[m].has_emb})
        early == Len(episodic) < min_cluster_size
        clusters == IF early THEN <<>> ELSE cluster_memories(episodic, distance_threshold)
        cluster_list == SortByUtility(SelectSeq2(clusters, min_cluster_size), snap)
        worth == Cardinality({i \in 1 .. Len(cluster_list) :
                                ~BelowUtility(cluster_list[i], snap)})
        created == Min(worth, max_clusters_to_summarize)
        dead == {m \in loaded : should_delete(compute_retention(snap[m]))}
    IN  IF early
        THEN [store |-> st, next_id |-> nid,
              result |-> [clusters |-> 0, semantic_created |-> 0, deleted |-> 0]]
        ELSE [store |-> [m \in DOMAIN st |->
                           IF m \in dead THEN NoMem
                           ELSE IF m \in nid .. (nid + created - 1) THEN SemanticRow(u)
                           ELSE st[m]],
              next_id |-> nid + created,
              result |-> [clusters |-> Len(clusters), semantic_created |-> created,
                          deleted |-> Cardinality(dead)]]

\* scheduler.py 13-20: the job starts and asks for the users; a failing
\* query ends the job in the outer except
StartJob(scan) ==
    /\ job.pc \in {"off", "done"}
    /\ IF conn.status = "aborted"
       THEN job' = [job EXCEPT !.pc = "done", !.users = <<>>, !.ui = 1,
                               !.consolidated = {}, !.failed = {}, !.faulted = {}]
       ELSE LET ids == get_user_ids(store, scan, get_user_ids_limit)
            IN  job' = [job EXCEPT !.pc = IF ids = <<>> THEN "done" ELSE "loop",
                                   !.users = ids, !.ui = 1,
                                   !.consolidated = {}, !.failed = {}, !.faulted = {}]
    /\ UNCHANGED <<store, queryVars, sweepVars, gcalls, trainVars, resp, builder,
                   pipeline, conn>>

\* the job after the user at ui
AfterUser(j) ==
    IF j.ui = Len(j.users) THEN [j EXCEPT !.pc = "done"] ELSE [j EXCEPT !.ui = @ + 1]

(***************************************************************************)
(* scheduler.py 20-24: one turn of the loop over the users.  The call of   *)
(* run_consolidation returns, raises an exception that no database         *)
(* statement caused (llm_summarize, the embedder, the clustering), or      *)
(* raises because a statement failed; on an aborted connection its first   *)
(* statement (get_user_memories) raises.  The except logs and goes on.     *)
(***************************************************************************)
ConsolidateUser(outcome) ==
    /\ job.pc = "loop"
    /\ LET u == job.users[job.ui]
           sweep == run_consolidation(store, u, next_id)
       IN  IF conn.status = "aborted"
           THEN /\ outcome = "db_error"
                /\ job' = AfterUser([job EXCEPT !.failed = @ \cup {u}])
                /\ UNCHANGED <<store, next_id, fault, conn>>
           ELSE IF outcome = "returned"
           THEN /\ \A m \in next_id .. (sweep.next_id - 1) : m \in DOMAIN store
                /\ store' = sweep.store
                /\ next_id' = sweep.next_id
                /\ job' = AfterUser([job EXCEPT !.consolidated = @ \cup {u},
                                                !.swept = @ \cup {u}])
                /\ UNCHANGED <<fault, conn>>
           ELSE /\ fault
                /\ fault' = FALSE
                /\ conn' = IF outcome = "db_error"
                           THEN [conn EXCEPT !.status = "aborted"]
                           ELSE conn
                /\ job' = AfterUser([job EXCEPT !.failed = @ \cup {u},
                                                !.faulted = @ \cup {u}])
                /\ UNCHANGED <<store, next_id>>
    /\ UNCHANGED <<queryVars, runs, gcalls, trainVars, resp, builder, pipeline>>

\* server.py 45-54 with GET /health (138-140): the middleware rolls the
\* shared connection back, the handler touches no state
health ==
    /\ conn' = [status |-> "idle", pending |-> <<>>]
    /\ resp' = [endpoint |-> "health", status |-> 200]
    /\ UNCHANGED <<store, queryVars, sweepVars, gcalls, trainVars, builder, pipeline, job>>

(***************************************************************************)
(* The store's writes statement by statement, as the background thread     *)
(* runs them while the server thread answers requests.  cur.execute puts a *)
(* statement into the connection's open transaction, conn.commit makes the *)
(* pending statements durable, and conn.rollback, from whichever thread,   *)
(* drops them; a statement executed after a rollback opens a new           *)
(* transaction.                                                            *)
(***************************************************************************)
\* the rows after conn.commit(): the pending DELETEs are applied
RECURSIVE commit_rows(_, _)
commit_rows(st, pending) ==
    IF pending = <<>> THEN st
    ELSE commit_rows(IF pending[1].op = "delete"
                     THEN [st EXCEPT ![pending[1].id] = NoMem]
                     ELSE st,
                     Tail(pending))

\* the values of one entry of the metrics a job writes
NewMetrics == [cached |-> TRUE, pagerank |-> 5, degree |-> 2]

\* graph_metrics after conn.commit(): the pending upserts are applied
RECURSIVE commit_metrics(_, _)
commit_metrics(gm, pending) ==
    IF pending = <<>> THEN gm
    ELSE commit_metrics(IF pending[1].op = "upsert"
                        THEN [gm EXCEPT ![pending[1].id] = NewMetrics]
                        ELSE gm,
                        Tail(pending))

\* the background thread has no store call in progress
JobIdle == job.pc \in {"off", "done"}

\* store.py 172-174: store.delete(memory_id) up to cur.execute; rowcount is
\* the number of rows the DELETE met inside the transaction
delete_execute(mid) ==
    /\ JobIdle
    /\ conn.status = "idle"
    /\ conn' = [conn EXCEPT !.pending = Append(@, [op |-> "delete", id |-> mid])]
    /\ job' = [job EXCEPT !.pc = "delete", !.op = "delete", !.target = mid,
                          !.returned = None,
                          !.rowcount = IF store[mid].present
                                          /\ \A i \in 1 .. Len(conn.pending) :
                                                conn.pending[i] # [op |-> "delete", id |-> mid]
                                       THEN 1 ELSE 0]
    /\ UNCHANGED <<store, queryVars, sweepVars, gcalls, trainVars, resp, builder, pipeline>>

\* store.py 175-176: conn.commit() and `return cur.rowcount > 0`
delete_commit ==
    /\ job.pc = "delete"
    /\ store' = commit_rows(store, conn.pending)
    /\ graph_metrics' = commit_metrics(graph_metrics, conn.pending)
    /\ conn' = [conn EXCEPT !.pending = <<>>]
    /\ job' = [job EXCEPT !.pc = "done",
                          !.returned = IF job.rowcount > 0 THEN "True" ELSE "False"]
    /\ UNCHANGED <<bm25_index, graph_store, graph_edges, mvn_model, query, req, res,
                   sweepVars, gcalls, trainVars, resp, builder, pipeline>>

\* scheduler.py 38-42 and store.py 270-275: the metrics job calls
\* set_graph_metrics_bulk with an entry for each memory of the graph
set_graph_metrics_bulk(metrics) ==
    /\ JobIdle
    /\ conn.status = "idle"
    /\ metrics # <<>>
    /\ job' = [job EXCEPT !.pc = "bulk", !.op = "bulk", !.entries = metrics, !.ei = 1,
                          !.returned = None]
    /\ UNCHANGED <<store, queryVars, sweepVars, gcalls, trainVars, resp, builder,
                   pipeline, conn>>

\* store.py 276-287: one turn of the loop, cur.execute of one upsert
bulk_execute ==
    /\ job.pc = "bulk"
    /\ job.ei <= Len(job.entries)
    /\ conn' = [conn EXCEPT !.pending = Append(@, [op |-> "upsert", id |-> job.entries[job.ei]])]
    /\ job' = [job EXCEPT !.ei = @ + 1]
    /\ UNCHANGED <<store, queryVars, sweepVars, gcalls, trainVars, resp, builder, pipeline>>

\* store.py 288: conn.commit() after the loop; the call returns
bulk_commit ==
    /\ job.pc = "bulk"
    /\ job.ei > Len(job.entries)
    /\ store' = commit_rows(store, conn.pending)
    /\ graph_metrics' = commit_metrics(graph_metrics, conn.pending)
    /\ conn' = [conn EXCEPT !.pending = <<>>]
    /\ job' = [job EXCEPT !.pc = "done", !.returned = "returned"]
    /\ UNCHANGED <<bm25_index, graph_store, graph_edges, mvn_model, query, req, res,
                   sweepVars, gcalls, trainVars, resp, builder, pipeline>>

\* each memory stored or missing, no metrics cached, nothing pending
InitWrites ==
    /\ store \in {StoreOf(f) :
                    f \in [MemIds -> {NoMem,
                                      Row("u1", "episodic", 60, NoScore, 30, 0, 20, TRUE)}]}
    /\ bm25_index = NoIndex
    /\ graph_store = "neo4j"
    /\ graph_edges = <<>>
    /\ graph_metrics = [m \in AllIds |-> NoMetrics]
    /\ mvn_model = None
    /\ query = [sim |-> [m \in AllIds |-> 50], bm |-> [m \in AllIds |-> 10],
                has_tokens |-> TRUE, has_entities |-> FALSE, intent |-> 3]
    /\ req = [user_id |-> "u1", k |-> MaxK, use_reranker |-> TRUE,
             rerank_top_k |-> rerank_top_k]
    /\ res = IdleRes
    /\ runs = <<>>
    /\ fault = FALSE
    /\ next_id = NumMem + 1
    /\ gcalls = <<>>
    /\ feedback_logs = <<>> /\ checkpoint = None /\ train = NoTrain
    /\ resp = NoResp
    /\ builder = NoCalls /\ pipeline = NoPipeline
    /\ job = NoJob /\ conn = NoConn

NextWrites ==
    \/ \E mid \in MemIds : delete_execute(mid)
    \/ delete_commit
    \/ \E n \in 1 .. NumMem : set_graph_metrics_bulk(AscSeq(1 .. n))
    \/ bulk_execute
    \/ bulk_commit
    \/ health

\* two users; each memory is missing, fresh or old and unused; one call may fail
InitJob ==
    /\ store \in {StoreOf(f) :
                    f \in [MemIds -> {NoMem,
                                      Row("u1", "episodic", 60, NoScore, 0, 0, 80, TRUE),
                                      Row("u2", "episodic", 60, NoScore, 0, 0, 80, TRUE),
                                      Row("u2", "episodic", 60, NoScore, 30, 0, 20, TRUE)}]}
    /\ bm25_index = NoIndex
    /\ graph_store = None
    /\ graph_edges = <<>>
    /\ graph_metrics = [m \in AllIds |-> NoMetrics]
    /\ mvn_model = None
    /\ query = [sim |-> [m \in AllIds |-> 50], bm |-> [m \in AllIds |-> 10],
                has_tokens |-> TRUE, has_entities |-> FALSE, intent |-> 3]
    /\ req = [user_id |-> "u1", k |-> MaxK, use_reranker |-> TRUE,
             rerank_top_k |-> rerank_top_k]
    /\ res = IdleRes
    /\ runs = <<>>
    /\ fault = TRUE
    /\ next_id = NumMem + 1
    /\ gcalls = <<>>
    /\ feedback_logs = <<>> /\ checkpoint = None /\ train = NoTrain
    /\ resp = NoResp
    /\ builder = NoCalls /\ pipeline = NoPipeline
    /\ job = NoJob /\ conn = NoConn

\* the users of a store that has one more user than the job asks for
UserNames ==
    <<"u1", "u2", "u3", "u4", "u5", "u6", "u7", "u8", "u9", "u10",
      "u11", "u12", "u13", "u14", "u15", "u16", "u17", "u18", "u19", "u20",
      "u21", "u22", "u23", "u24", "u25", "u26", "u27", "u28", "u29", "u30",
      "u31", "u32", "u33", "u34", "u35", "u36", "u37", "u38", "u39", "u40",
      "u41", "u42", "u43", "u44", "u45", "u46", "u47", "u48", "u49", "u50",
      "u51">>

\* a store of UserNames, each the owner of one fresh memory; no call fails
InitPeriodic ==
    /\ store = [m \in 1 .. Len(UserNames) |->
                  Row(UserNames[m], "episodic", 60, NoScore, 0, 0, 80, TRUE)]
    /\ bm25_index = NoIndex
    /\ graph_store = None
    /\ graph_edges = <<>>
    /\ graph_metrics = [m \in AllIds |-> NoMetrics]
    /\ mvn_model = None
    /\ query = [sim |-> [m \in AllIds |-> 50], bm |-> [m \in AllIds |-> 10],
                has_tokens |-> TRUE, has_entities |-> FALSE, intent |-> 3]
    /\ req = [user_id |-> "u1", k |-> MaxK, use_reranker |-> TRUE,
             rerank_top_k |-> rerank_top_k]
    /\ res = IdleRes
    /\ runs = <<>>
    /\ fault = FALSE
    /\ next_id = Len(UserNames) + 1
    /\ gcalls = <<>>
    /\ feedback_logs = <<>> /\ checkpoint = None /\ train = NoTrain
    /\ resp = NoResp
    /\ builder = NoCalls /\ pipeline = NoPipeline
    /\ job = NoJob /\ conn = NoConn

\* the scheduler fires the job every six hours (scheduler.py 58-65); the
\* database scans the owners forwards or backwards
NextPeriodic ==
    \/ \E scan \in {UserNames, Backwards(UserNames)} : StartJob(scan)
    \/ ConsolidateUser("returned")

NextJob ==
    \/ \E scan \in {<<"u1", "u2">>, <<"u2", "u1">>} : StartJob(scan)
    \/ \E o \in {"returned", "raise", "db_error"} : ConsolidateUser(o)
    \/ health

(***************************************************************************)
(* Specifications.                                                         *)
(***************************************************************************)
vars == <<store, bm25_index, graph_store, graph_edges, graph_metrics,
          mvn_model, query, req, res, runs, fault, next_id, gcalls,
          feedback_logs, checkpoint, train, resp,
          builder, pipeline, jobVars>>

InitRetrieve ==
    /\ InitFusion \/ InitRank \/ InitWide
    /\ runs = <<>> /\ fault = FALSE /\ next_id = NumMem + 1
    /\ gcalls = <<>>
    /\ feedback_logs = <<>> /\ checkpoint = None /\ train = NoTrain
    /\ resp = NoResp
    /\ builder = NoCalls /\ pipeline = NoPipeline
    /\ job = NoJob /\ conn = NoConn

NextRetrieve == QueryMemory

\* one query over every initial state of the three families
SpecRetrieve == InitRetrieve /\ [][NextRetrieve]_vars

\* training runs, server starts and queries in any order
SpecTrain == InitTrain /\ [][NextTrain]_vars

\* calls of the feature builder from both paths as time passes
SpecFeatures == InitFeatures /\ [][NextFeatures]_vars

\* two retrieve_with_hybrid calls, their steps interleaved in any order
SpecConcurrent == InitConcurrent /\ [][NextConcurrent]_vars

\* deletions, then one fusion or one whole query
SpecFuse == InitFuse /\ [][NextFuse]_vars

\* sweeps with chosen limits, step by step
SpecSummarize == InitSummarize /\ [][NextSummarize]_vars

\* sweeps next to requests that delete memories
SpecCounts == InitCounts /\ [][NextCounts]_vars

\* runs of the consolidation job next to requests
SpecJob == InitJob /\ [][NextJob]_vars

\* the periodic job, each of its steps taken if it stays possible
SpecPeriodic ==
    /\ InitPeriodic
    /\ [][NextPeriodic]_vars
    /\ WF_vars(\E scan \in {UserNames, Backwards(UserNames)} : StartJob(scan))
    /\ WF_vars(ConsolidateUser("returned"))

\* the store's writes from the background thread next to requests
SpecWrites == InitWrites /\ [][NextWrites]_vars

\* requests to the query endpoint
SpecQuery == InitQuery /\ [][NextQuery]_vars

\* writes to the store through the endpoints and consolidation sweeps, in any order
SpecStore == InitStore /\ [][NextStore]_vars

\* up to MaxSweeps consolidation sweeps, one after the other
SpecSweep == InitSweep /\ [][NextSweep]_vars

(***************************************************************************)
(* Up to MaxCalls queries, each with a graph lookup.  The caller's thread  *)
(* is scheduled and join(timeout) returns when the timeout expires at the  *)
(* latest, so the two steps of the caller inside the lookup are fair;      *)
(* nothing makes the graph answer.                                         *)
(***************************************************************************)
SpecGraphCall ==
    /\ InitGraphCall
    /\ [][NextGraphCall]_vars
    /\ WF_vars(JoinReturns)
    /\ WF_vars(CheckAlive)

(***************************************************************************)
(* Claims about retrieval.                                                 *)
(***************************************************************************)
Range(s) == {s[i] : i \in 1 .. Len(s)}

ScoreIn(hits, m) == hits[CHOOSE i \in 1 .. Len(hits) : hits[i].id = m].score

RowsOf(m) == {i \in 1 .. Len(res.raw) : res.raw[i].id = m}

SourcesOf(m) ==
    (IF m \in SeqIds(res.vec) THEN 1 ELSE 0)
    + (IF m \in SeqIds(res.lex) THEN 1 ELSE 0)
    + (IF m \in Range(res.graph) THEN 1 ELSE 0)

(***************************************************************************)
(* C1.  A memory of the store that is in two or more of the vector,        *)
(* lexical and graph results of one retrieve_candidates call has exactly   *)
(* one row in the fused list, and the row keeps the vector similarity, the *)
(* lexical score and from_graph = TRUE of every source it came from.       *)
(***************************************************************************)
C1_FusionDedupe ==
    res.pc = "done" =>
        \A m \in AllIds :
            (SourcesOf(m) >= 2 /\ store[m].present) =>
                /\ Cardinality(RowsOf(m)) = 1
                /\ \A i \in RowsOf(m) :
                      /\ m \in SeqIds(res.vec) =>
                            res.raw[i].similarity = ScoreIn(res.vec, m)
                      /\ m \in SeqIds(res.lex) =>
                            res.raw[i].bm25_score = ScoreIn(res.lex, m)
                      /\ m \in Range(res.graph) => res.raw[i].from_graph

\* a memory found by all three sources, fused into one row with all fields
C1_Witness ==
    /\ res.pc = "done"
    /\ \E m \in MemIds :
          /\ m \in SeqIds(res.vec) /\ m \in SeqIds(res.lex) /\ m \in Range(res.graph)
          /\ \E i \in RowsOf(m) :
                /\ res.raw[i].similarity > 0
                /\ res.raw[i].bm25_score > 0
                /\ res.raw[i].from_graph

(***************************************************************************)
(* C8.  With no scoring model loaded a ranking call never runs a model and *)
(* leaves every candidate's mvn_score absent; with a model loaded and an   *)
(* empty candidate set the call returns the empty list and does not run    *)
(* the model.                                                              *)
(***************************************************************************)
C8_ModelFallback ==
    res.pc = "done" =>
        /\ mvn_model = None =>
              /\ res.model_calls = 0
              /\ \A i \in 1 .. Len(res.ranked) : res.ranked[i].mvn_score = NoScore
              /\ \A i \in 1 .. Len(res.out) : res.out[i].mvn_score = NoScore
        /\ (mvn_model # None /\ res.raw = <<>>) =>
              res.out = <<>> /\ res.model_calls = 0

\* a model is loaded and the query finds no candidate
C8_Witness ==
    res.pc = "done" /\ mvn_model # None /\ res.raw = <<>> /\ res.out = <<>>

StrictlyHighestBlended(i) ==
    \A j \in 1 .. Len(res.ranked) :
        j # i => CandidateScore(res.ranked[i]) > CandidateScore(res.ranked[j])

(***************************************************************************)
(* C9 as claimed.  With no scoring model, called as the query endpoint     *)
(* calls it (reranker on), the candidate with the strictly highest         *)
(* non-learned blended score is first in the returned list.                *)
(***************************************************************************)
C9_BlendedFirst ==
    (/\ res.pc = "done" /\ mvn_model = None /\ res.out # <<>>
     /\ req.use_reranker /\ req.rerank_top_k = rerank_top_k) =>
        \A i \in 1 .. Len(res.ranked) :
            StrictlyHighestBlended(i) => res.out[1].id = res.ranked[i].id

(***************************************************************************)
(* C9 amended.  With no scoring model the first pass orders the candidates *)
(* by the non-learned blended score, and with reranking disabled the       *)
(* candidate with the strictly highest blended score is returned first;    *)
(* called as the query endpoint calls it (reranker on), the first returned *)
(* candidate is one with the highest 0.5*graph_score + 0.2*similarity      *)
(* among the 20 first candidates of the first pass.                        *)
(***************************************************************************)
C9_RerankedFirst ==
    (res.pc = "done" /\ mvn_model = None /\ res.out # <<>>) =>
        /\ \A i, j \in 1 .. Len(res.ranked) :
              i < j => CandidateScore(res.ranked[i]) >= CandidateScore(res.ranked[j])
        /\ ~req.use_reranker =>
              \A i \in 1 .. Len(res.ranked) :
                  StrictlyHighestBlended(i) => res.out[1].id = res.ranked[i].id
        /\ req.use_reranker =>
              \A i \in 1 .. Min(RerankSlice, Len(res.ranked)) :
                  50 * res.out[1].graph_score + 20 * res.out[1].similarity
                    >= 50 * res.ranked[i].graph_score + 20 * res.ranked[i].similarity

\* the reranker puts another candidate before the one with the highest blend
C9_Witness ==
    /\ res.pc = "done" /\ mvn_model = None /\ res.out # <<>>
    /\ req.use_reranker /\ req.rerank_top_k = rerank_top_k
    /\ \E i \in 1 .. Len(res.ranked) :
          StrictlyHighestBlended(i) /\ res.out[1].id # res.ranked[i].id

PosInRaw(m) == CHOOSE i \in 1 .. Len(res.raw) : res.raw[i].id = m

\* a before b in "final score descending, fusion order among equals"
Before(a, b) ==
    \/ FirstPassScore(a) > FirstPassScore(b)
    \/ FirstPassScore(a) = FirstPassScore(b) /\ PosInRaw(a.id) < PosInRaw(b.id)

(***************************************************************************)
(* C10.  With reranking disabled retrieve_with_hybrid returns exactly the  *)
(* first min(k, n) of the n fused candidates in non-increasing order of    *)
(* the first-pass final score, candidates of equal score in fusion order.  *)
(***************************************************************************)
C10_TopKStable ==
    (res.pc = "done" /\ ~req.use_reranker) =>
        /\ Len(res.out) = Min(req.k, Len(res.raw))
        /\ \A i \in 1 .. Len(res.out) :
              /\ res.out[i].id \in SeqIds(res.raw)
              /\ res.out[i].final_score = FirstPassScore(res.out[i])
        /\ \A i, j \in 1 .. Len(res.out) : i < j => Before(res.out[i], res.out[j])
        /\ \A i \in 1 .. Len(res.out) :
              \A j \in 1 .. Len(res.ranked) :
                  res.ranked[j].id \notin SeqIds(res.out) =>
                      Before(res.out[i], res.ranked[j])

\* a tie inside the returned list while a fused candidate is cut off
C10_Witness ==
    /\ res.pc = "done" /\ ~req.use_reranker
    /\ Len(res.out) = 2 /\ Len(res.raw) > 2
    /\ res.out[1].final_score = res.out[2].final_score

(***************************************************************************)
(* C11.  With reranking enabled, k >= 1, rerank_top_k >= 1 and n >= 1      *)
(* fused candidates, retrieve_with_hybrid returns exactly                  *)
(* min(rerank_top_k, k, 20, n) candidates, never more than k; fewer than   *)
(* 20 candidates have a higher first-pass final score than a returned one, *)
(* and the returned list is in non-increasing order of                     *)
(* 0.5*graph_score + 0.3*learned utility + 0.2*similarity, which is the    *)
(* final score each returned candidate carries.                            *)
(***************************************************************************)
RerankKey(c) ==
    50 * c.graph_score + 30 * (IF c.mvn_score = NoScore THEN 0 ELSE c.mvn_score)
    + 20 * c.similarity

HigherFirstPass(c) ==
    {j \in 1 .. Len(res.ranked) : FirstPassScore(res.ranked[j]) > FirstPassScore(c)}

C11_RerankedTopOfSlice ==
    (/\ res.pc = "done" /\ req.use_reranker
     /\ req.k >= 1 /\ req.rerank_top_k >= 1 /\ Len(res.raw) >= 1) =>
        /\ Len(res.out) = Min(Min(req.rerank_top_k, req.k), Min(20, Len(res.raw)))
        /\ Len(res.out) <= req.k
        /\ \A i \in 1 .. Len(res.out) :
              /\ res.out[i].id \in SeqIds(res.raw)
              /\ Cardinality(HigherFirstPass(res.out[i])) < 20
              /\ res.out[i].final_score = RerankKey(res.out[i])
        /\ \A i, j \in 1 .. Len(res.out) :
              i < j => RerankKey(res.out[i]) >= RerankKey(res.out[j])

\* more than 20 candidates, 20 returned, and the candidate with the highest
\* rerank key of all is the 21st of the first pass and is not returned
C11_Witness ==
    /\ res.pc = "done" /\ req.use_reranker
    /\ Len(res.raw) > 20 /\ Len(res.out) = 20
    /\ req.rerank_top_k > 20 /\ req.k > 20
    /\ \E j \in 1 .. Len(res.ranked) :
          /\ j > 20
          /\ res.ranked[j].id \notin SeqIds(res.out)
          /\ RerankKey(res.ranked[j]) > RerankKey(res.out[1])

(***************************************************************************)
(* Claims about the consolidation sweep.                                   *)
(***************************************************************************)
Returned(r) == runs[r].pc = "returned"

Loaded(r) == DOMAIN runs[r].snap

\* Pi of a memory as the run r saw it
PiAt(r, m) == compute_pi(runs[r].snap[m])

\* the memories the run r clustered: episodic, with an embedding
Clustered(r) == Range(runs[r].episodic)

\* two different memories are in one cluster of the run r
SameGroup(r, a, b) ==
    /\ a # b
    /\ \E i \in 1 .. Len(runs[r].clusters) :
        a \in Range(runs[r].clusters[i]) /\ b \in Range(runs[r].clusters[i])

(***************************************************************************)
(* C2.  A sweep deletes a memory only if its Pi is strictly below          *)
(* tau_delete: every memory a sweep loaded with Pi >= tau_delete, one with *)
(* Pi = tau_delete and the sources of a summarized cluster included, is    *)
(* still in the store.                                                     *)
(***************************************************************************)
C2_DeleteOnlyBelowTau ==
    \A r \in 1 .. Len(runs) :
        \A m \in Loaded(r) :
            /\ m \in runs[r].removed => PiAt(r, m) < tau_delete
            /\ PiAt(r, m) >= tau_delete => store[m].present

\* a summarized cluster has a source with Pi = tau_delete, still stored after
\* a sweep that deleted another memory
C2_Witness ==
    \E r \in 1 .. Len(runs) :
        /\ Returned(r)
        /\ runs[r].removed # {}
        /\ \E i \in 1 .. Len(runs[r].stored) :
              \E m \in Range(runs[r].stored[i].ids) :
                  PiAt(r, m) = tau_delete /\ store[m].present

(***************************************************************************)
(* C3.  After run_consolidation returns normally no memory that it loaded  *)
(* with Pi < tau_delete is left in the store.                              *)
(***************************************************************************)
C3_AllLowDeleted ==
    \A r \in 1 .. Len(runs) :
        Returned(r) =>
            \A m \in Loaded(r) : PiAt(r, m) < tau_delete => ~store[m].present

(***************************************************************************)
(* C4.  Every cluster a sweep summarizes has exactly one new semantic      *)
(* memory in the store, and the stored provenance of that memory is the    *)
(* list of the ids of the cluster's memories.                              *)
(***************************************************************************)
C4_OneSemanticWithProvenance ==
    \A r \in 1 .. Len(runs) :
        \A i \in 1 .. Len(runs[r].stored) :
            LET e == runs[r].stored[i]
            IN  /\ store[e.sem].present
                /\ store[e.sem].type = "semantic"
                /\ \A j \in 1 .. Len(runs[r].stored) :
                      runs[r].stored[j].ids = e.ids => j = i
                /\ store[e.sem].provenance = e.ids

\* two sweeps of one user in a row, both returned
TwoInARow(r) ==
    /\ r + 1 <= Len(runs)
    /\ Returned(r) /\ Returned(r + 1)
    /\ runs[r].user = runs[r + 1].user

Survivors(r) == Loaded(r) \ runs[r].removed

(***************************************************************************)
(* C5 as claimed.  Of two sweeps in a row for one user the second deletes  *)
(* no memory that the first kept, and it groups the surviving episodic     *)
(* memories as the first did.                                              *)
(***************************************************************************)
C5_SameDecisions ==
    \A r \in 1 .. Len(runs) :
        TwoInARow(r) =>
            /\ \A m \in Survivors(r) : m \notin runs[r + 1].removed
            /\ \A a, b \in Survivors(r) \cap Clustered(r) :
                  SameGroup(r, a, b) <=> SameGroup(r + 1, a, b)

(***************************************************************************)
(* C5 amended.  Of two sweeps in a row for one user, scored at the same    *)
(* clock reading, the second deletes no memory that the first kept; it     *)
(* groups the surviving episodic memories as the first did when the first  *)
(* deleted none of the memories it had clustered.                          *)
(***************************************************************************)
C5_SameDecisionsUnlessMemberDeleted ==
    \A r \in 1 .. Len(runs) :
        TwoInARow(r) =>
            /\ \A m \in Survivors(r) : m \notin runs[r + 1].removed
            /\ runs[r].removed \cap Clustered(r) = {} =>
                  \A a, b \in Survivors(r) \cap Clustered(r) :
                      SameGroup(r, a, b) <=> SameGroup(r + 1, a, b)

\* the first sweep deleted a memory outside its clusters, and both sweeps
\* found the same cluster of two or more
C5_Witness ==
    \E r \in 1 .. Len(runs) :
        /\ TwoInARow(r)
        /\ runs[r].removed # {}
        /\ runs[r].removed \cap Clustered(r) = {}
        /\ runs[r].cluster_list # <<>>
        /\ runs[r + 1].cluster_list = runs[r].cluster_list

(***************************************************************************)
(* C6.  A sweep in which a store write failed still returns, and every     *)
(* memory it loaded with Pi < tau_delete, the one the failed write was     *)
(* about excepted, is deleted.                                             *)
(***************************************************************************)
C6_WriteFailureSkipped ==
    \A r \in 1 .. Len(runs) :
        (runs[r].failed # {} /\ runs[r].pc \in {"returned", "raised"}) =>
            /\ Returned(r)
            /\ \A m \in Loaded(r) \ runs[r].failed :
                  PiAt(r, m) < tau_delete => ~store[m].present

(***************************************************************************)
(* Claims about the graph lookup.                                          *)
(***************************************************************************)
\* the timeout of the call c expired before its worker had answered
TimedOut(c) == gcalls[c].expired /\ ~gcalls[c].answered

Over(c) == c <= Len(gcalls) /\ gcalls[c].pc \in {"returned", "fused"}

(***************************************************************************)
(* C7.  In every interleaving of the caller and the worker the call        *)
(* returns; when the worker has not answered at the expiry of the timeout  *)
(* the call returns the empty list, fusion has no graph-sourced candidate, *)
(* and a list the worker produces after the expiry is in the candidates of *)
(* neither that call nor a later one.                                      *)
(***************************************************************************)
C7_TimeoutReturnsEmpty ==
    /\ [](\A c \in 1 .. Len(gcalls) :
            /\ (Over(c) /\ TimedOut(c)) => gcalls[c].ret = <<>>
            /\ (gcalls[c].pc = "fused" /\ TimedOut(c)) =>
                  \A i \in 1 .. Len(gcalls[c].raw) : ~gcalls[c].raw[i].from_graph
            /\ (Over(c) /\ gcalls[c].ret # <<>>) =>
                  gcalls[c].answered \/ ~gcalls[c].expired)
    /\ \A c \in 1 .. MaxCalls :
          (c <= Len(gcalls) /\ gcalls[c].pc = "joining") ~> Over(c)

(***************************************************************************)
(* Claims about training.                                                  *)
(***************************************************************************)
ScriptRan == train.runs > 0 /\ train.source # "caller"

Stored(mid) == mid \in DOMAIN store /\ store[mid].present

(***************************************************************************)
(* C12.  Every training entry built from a feedback record has as its      *)
(* positive an id of the record's used list, and as its negatives ids the  *)
(* record retrieved and did not use, the positive not among them; the      *)
(* samples made of the entries keep that positive and a part of those      *)
(* negatives.                                                              *)
(***************************************************************************)
C12_PositiveUsedNegativesUnused ==
    ScriptRan =>
        /\ \A i \in 1 .. Len(train.entries) :
              LET e == train.entries[i]
                  rec == feedback_logs[e.log]
              IN  /\ e.pos_memory_id \in rec.used_memory_ids
                  /\ \A n \in Range(e.neg_memory_ids) :
                        /\ n \in Range(rec.retrieved_memory_ids)
                        /\ n \notin rec.used_memory_ids
                        /\ n # e.pos_memory_id
        /\ train.source = "feedback" =>
              \A i \in 1 .. Len(train.samples) :
                  LET sm == train.samples[i]
                      rec == feedback_logs[sm.log]
                  IN  /\ sm.pos \in rec.used_memory_ids
                      /\ \A n \in Range(sm.negs) :
                            n \in Range(rec.retrieved_memory_ids) \ rec.used_memory_ids

\* the entries hold a usable sample: a stored positive with a stored negative
FeedbackUsable ==
    \E i \in 1 .. Len(train.entries) :
        /\ Stored(train.entries[i].pos_memory_id)
        /\ \E n \in Range(train.entries[i].neg_memory_ids) : Stored(n)

WithEmbedding == {m \in DOMAIN store : store[m].present /\ store[m].has_emb}

SyntheticPossible == Cardinality(WithEmbedding) >= 2

\* what holds of a run of the training script whether or not it found data
RunOutcome ==
    /\ train.exit = 0
    /\ FeedbackUsable => train.source = "feedback"
    /\ (~FeedbackUsable /\ SyntheticPossible) =>
          /\ train.source = "synthetic"
          /\ {train.samples[i].pos : i \in 1 .. Len(train.samples)} = WithEmbedding
          /\ \A i \in 1 .. Len(train.samples) :
                /\ train.samples[i].negs # <<>>
                /\ Range(train.samples[i].negs) \subseteq
                       WithEmbedding \ {train.samples[i].pos}
    /\ train.called =>
          /\ train.samples # <<>>
          /\ train.model \in TrainedWeights
          /\ checkpoint = train.model

(***************************************************************************)
(* C13 as claimed.  A run of the training script ends with exit status 0;  *)
(* with no usable sample from the feedback log it trains on synthetic      *)
(* samples of the stored memories, and with no synthetic sample either it  *)
(* yields an untrained model.                                              *)
(***************************************************************************)
C13_NoDataYieldsUntrained ==
    ScriptRan =>
        /\ RunOutcome
        /\ (~FeedbackUsable /\ ~SyntheticPossible) => train.model = "w0"

(***************************************************************************)
(* C13 amended.  A run of the training script ends with exit status 0;     *)
(* with no usable sample from the feedback log it trains on synthetic      *)
(* samples of the stored memories, and with no synthetic sample either it  *)
(* ends without calling train_mvn: it yields no model and the checkpoint   *)
(* file holds what it held before the run.                                 *)
(***************************************************************************)
C13_NoDataEndsWithoutModel ==
    /\ [](ScriptRan =>
            /\ RunOutcome
            /\ (~FeedbackUsable /\ ~SyntheticPossible) =>
                  ~train.called /\ train.model = None)
    /\ [][(train'.runs # train.runs /\ ~train'.called) => checkpoint' = checkpoint]_vars

\* a run that found neither feedback samples nor two memories to synthesize from
C13_Witness ==
    /\ ScriptRan /\ train.exit = 0
    /\ feedback_logs # <<>> /\ train.entries # <<>>
    /\ ~FeedbackUsable /\ ~SyntheticPossible
    /\ train.model = None

(***************************************************************************)
(* C14.  A ranking call that ran the scoring model ran weights that were   *)
(* trained on at least one (positive, negative) pair; the freshly          *)
(* initialised network train_mvn returns for an empty training set is      *)
(* never run.                                                              *)
(***************************************************************************)
C14_UntrainedIsNoModel ==
    (res.pc = "done" /\ res.model_calls > 0) => mvn_model \in TrainedWeights

(***************************************************************************)
(* Claims about the endpoints.                                             *)
(***************************************************************************)

(***************************************************************************)
(* C15.  In every state of the store that add, ingest, PATCH, feedback and *)
(* consolidation can bring about, the importance of every stored memory    *)
(* lies in [0, 1], and so does its learned utility score when it has one.  *)
(***************************************************************************)
C15_ImportanceInUnitRange ==
    \A m \in StoredIds(store) :
        /\ 0 <= store[m].importance /\ store[m].importance <= 100
        /\ store[m].mvn_score # NoScore =>
              (0 <= store[m].mvn_score /\ store[m].mvn_score <= 100)

WellFormed ==
    /\ resp.q # ""
    /\ resp.user \in {None} \cup Users
    /\ 1 <= resp.k /\ resp.k <= 100

(***************************************************************************)
(* C18.  A well-formed query over a non-empty store whose rows are all     *)
(* valid is answered 200 with the ranked list, whether or not a graph      *)
(* store, a lexical index or a scoring model is there: no stage throws.    *)
(***************************************************************************)
C18_WellFormedQuerySucceeds ==
    (/\ resp.endpoint = "query"
     /\ WellFormed
     /\ resp.nonempty
     /\ \A m \in StoredIds(store) : Readable(store[m])) =>
        resp.status = 200 /\ resp.error = None

(***************************************************************************)
(* C19.  A query request with an empty query string or with an owner id    *)
(* that does not parse is answered with a validation failure (422), and    *)
(* retrieve_with_hybrid is not entered for it.                             *)
(***************************************************************************)
C19_MalformedQueryRejected ==
    (/\ resp.endpoint = "query"
     /\ IF resp.q = "" THEN TRUE ELSE resp.user \notin {None} \cup Users) =>
        resp.status = 422 /\ ~resp.ran

(***************************************************************************)
(* Claims about the feature builder.                                       *)
(***************************************************************************)
\* C16: for the same query and the same memory, the vector built from the
\* Candidate on the online path equals, component by component, the vector
\* built from the Memory on the offline path
C16_OnlineEqualsOffline ==
    \A a, b \in builder.calls :
        (/\ a.path = "candidate" /\ b.path = "memory"
         /\ a.mid = b.mid /\ a.now = b.now) =>
            \A j \in 1 .. build_mvn_feature_dim : a.out[j] = b.out[j]

SameArguments(a, b) ==
    /\ a.candidate = b.candidate
    /\ a.memory = b.memory /\ a.mid = b.mid
    /\ a.pagerank = b.pagerank /\ a.graph_distance = b.graph_distance
    /\ a.intent_type = b.intent_type

\* C17: two calls of build_mvn_features with identical arguments return
\* identical vectors, and every vector returned has 11 elements
C17_DeterministicFixedLength ==
    /\ \A a, b \in builder.calls : SameArguments(a, b) => a.out = b.out
    /\ \A a \in builder.calls : Len(a.out) = build_mvn_feature_dim


(***************************************************************************)
(* Claims about concurrent ranking calls.                                  *)
(***************************************************************************)
\* what the call returns when it runs alone
Alone(c) ==
    retrieve_with_hybrid(store, bm25_index, graph_store, graph_edges, graph_metrics,
                         mvn_model, query, c.user_id, c.k, c.use_reranker,
                         c.rerank_top_k).out

\* C20: however the steps of two concurrent retrieve_with_hybrid calls
\* interleave over an unchanged store, index and model, each call returns
\* the list it returns when it runs alone
C20_EachCallAsAlone ==
    \A i \in DOMAIN pipeline.local :
        pipeline.local[i].pc = "done" => pipeline.local[i].out = Alone(pipeline.local[i])

\* two calls have returned different lists, each having taken steps while
\* the other was under way, and the shared model has scored candidates
C20_Witness ==
    /\ DOMAIN pipeline.local = CallIds
    /\ \A i \in 1 .. 2 : /\ pipeline.local[i].pc = "done"
                         /\ pipeline.local[i].overlapped
                         /\ pipeline.local[i].out # <<>>
    /\ pipeline.local[1].out # pipeline.local[2].out
    /\ pipeline.shared.eval_mode

(***************************************************************************)
(* Claims about fusion.                                                    *)
(***************************************************************************)
Fused == res.pc = "fused"

RawIds == [i \in 1 .. Len(res.raw) |-> res.raw[i].id]

\* the ids of the hits of one source that the store resolves, when the
\* source says so of this call's owner, and that no earlier source gave
Only(ids, earlier, owned) ==
    LET keep(m) == /\ m \notin earlier
                   /\ store[m].present
                   /\ (owned /\ req.user_id # None) => store[m].owner = req.user_id
    IN  SelectSeq(ids, keep)

VecIds == [i \in 1 .. Len(res.vec) |-> res.vec[i].id]

LexIds == [i \in 1 .. Len(res.lex) |-> res.lex[i].id]

\* vector hits, then lexical-only hits, then graph-only hits
FusionOrder ==
    VecIds \o Only(LexIds, Range(VecIds), FALSE)
           \o Only(res.graph, Range(VecIds) \cup Range(LexIds), TRUE)

\* C21: retrieve_candidates returns at most merge_cap entries, the first
\* merge_cap of: vector hits in vector order, lexical-only hits in lexical
\* order, graph-only hits in graph order
C21_CapKeepsFusionPrefix ==
    Fused => /\ Len(res.raw) <= res.merge_cap
             /\ RawIds = Take(FusionOrder, res.merge_cap)

\* the cap cut a fused list that ends with a graph-only hit and kept a
\* vector hit and a lexical-only hit
C21_Witness ==
    /\ Fused
    /\ Len(FusionOrder) > res.merge_cap
    /\ Len(res.raw) = res.merge_cap
    /\ FusionOrder[Len(FusionOrder)] \notin Range(VecIds) \cup Range(LexIds)
    /\ \E i, j \in 1 .. Len(res.raw) :
          /\ res.raw[i].id \in Range(VecIds)
          /\ res.raw[j].id \notin Range(VecIds) /\ res.raw[j].id \in Range(LexIds)

\* C22: the graph is asked exactly when a graph store is present and the
\* query has an entity; otherwise it is not called, no fused candidate is
\* from the graph and the fused list is the vector-then-lexical fusion
C22_GraphOnlyWithStoreAndEntity ==
    Fused =>
        IF graph_store # None /\ query.has_entities
        THEN res.graph_calls = 1
        ELSE /\ res.graph_calls = 0
             /\ \A i \in 1 .. Len(res.raw) : ~res.raw[i].from_graph
             /\ RawIds = Take(VecIds \o Only(LexIds, Range(VecIds), FALSE),
                              res.merge_cap)

\* a graph store that holds edges to stored rows was not asked, the query
\* having no entity, and vector and lexical hits were fused
C22_Witness ==
    /\ Fused
    /\ graph_store # None /\ ~query.has_entities
    /\ \E i \in 1 .. Len(graph_edges) : store[graph_edges[i]].present
    /\ res.graph_calls = 0
    /\ Len(res.raw) >= 2

OutIds == [i \in 1 .. Len(res.out) |-> res.out[i].id]

\* C26: with an owner id given, every candidate of retrieve_candidates and
\* of retrieve_with_hybrid is a memory of that owner
C26_OnlyOwnersMemories ==
    (res.pc # "idle" /\ req.user_id # None) =>
        \A m \in Range(RawIds) \cup Range(OutIds) : store[m].owner = req.user_id

\* a call for an owner returned candidates while the lexical index and the
\* graph list a stored memory of another owner
C26_Witness ==
    /\ res.pc # "idle" /\ req.user_id # None
    /\ res.raw # <<>>
    /\ \E m \in Range(bm25_index.doc_ids) :
          /\ store[m].present /\ store[m].owner # req.user_id
          /\ m \in Range(res.graph)

\* C27: a memory deleted before the call starts is not among the call's
\* candidates nor in its result
C27_DeletedNeverReturned ==
    res.pc # "idle" =>
        /\ \A m \in Range(RawIds) \cup Range(OutIds) : store[m].present
        /\ (resp.endpoint = "delete" /\ resp.status = 200) =>
               resp.memory_id \notin Range(RawIds) \cup Range(OutIds)

\* the delete endpoint removed a row that the lexical index and the graph
\* still list, and the call that followed returned other memories
C27_Witness ==
    /\ res.pc = "done"
    /\ resp.endpoint = "delete" /\ resp.status = 200
    /\ resp.memory_id \in Range(bm25_index.doc_ids)
    /\ resp.memory_id \in Range(res.graph)
    /\ req.user_id = None
    /\ res.out # <<>>

(***************************************************************************)
(* Claims about what a sweep summarizes and what it reports.               *)
(***************************************************************************)
\* C23: a sweep summarizes clusters in non-increasing order of utility,
\* none with fewer than min_cluster_size members, and creates at most
\* max_clusters_to_summarize semantic memories
C23_SummarizedByUtilityUnderCap ==
    \A n \in 1 .. Len(runs) :
        LET r == runs[n]
        IN  /\ \A i, j \in 1 .. Len(r.stored) :
                  i < j => UtilityGeq(r.stored[i].ids, r.stored[j].ids, r.snap)
            /\ \A i \in 1 .. Len(r.stored) :
                  /\ Len(r.stored[i].ids) >= r.min_cluster_size
                  /\ store[r.stored[i].sem].type = "semantic"
            /\ Len(r.stored) <= r.max_clusters_to_summarize
            /\ r.semantic_created <= r.max_clusters_to_summarize

\* a sweep capped at one summary returned having summarized, of several
\* clusters above the utility threshold, one that was not labelled first
C23_Witness ==
    \E n \in 1 .. Len(runs) :
        LET r == runs[n]
        IN  /\ r.pc = "returned"
            /\ r.max_clusters_to_summarize = 1
            /\ Cardinality({i \in 1 .. Len(r.cluster_list) :
                              ~BelowUtility(r.cluster_list[i], r.snap)}) >= 2
            /\ Len(r.stored) = 1
            /\ r.stored[1].ids # r.clusters[1]

\* C24: the counts a sweep returns match what it did, whatever other
\* writers do meanwhile: deleted is the number of memories it removed,
\* semantic_created the number of semantic memories it added, clusters the
\* number of clusters it formed
C24_CountsMatch ==
    \A n \in 1 .. Len(runs) :
        LET r == runs[n]
        IN  r.pc = "returned" =>
               /\ r.result.deleted = Cardinality(r.removed)
               /\ r.result.semantic_created = Len(r.stored)
               /\ r.result.clusters = Len(r.clusters)

\* C28: a later sweep of a user gives no second semantic memory to a
\* cluster that an earlier sweep of that user has summarized
C28_NoSecondSummary ==
    \A a, b \in 1 .. Len(runs) :
        (a < b /\ runs[a].user = runs[b].user /\ runs[a].pc = "returned") =>
            \A i \in 1 .. Len(runs[a].stored), j \in 1 .. Len(runs[b].stored) :
                runs[a].stored[i].ids # runs[b].stored[j].ids

(***************************************************************************)
(* Claims about the background jobs and the shared connection.             *)
(***************************************************************************)
\* C25: in one run of the consolidation job an exception raised while
\* consolidating one user leaves every other user returned by
\* get_user_ids consolidated
C25_OthersStillConsolidated ==
    job.pc = "done" =>
        \A i \in 1 .. Len(job.users) :
            job.users[i] \in job.consolidated \cup job.faulted

\* C30: under the periodic job every user who owns a memory is
\* eventually consolidated, however many users the store holds
C30_EveryOwnerEventuallyConsolidated ==
    <>(Owners(store) \subseteq job.swept)

\* C29: a store write that returned to the background job is durable and
\* whole, whatever requests ran the rollback middleware meanwhile: a
\* memory that store.delete reported deleted is gone, and the entries of a
\* bulk metrics update are applied all or none
C29_WritesDurableAndWhole ==
    /\ (job.pc = "done" /\ job.op = "delete" /\ job.returned = "True") =>
          ~store[job.target].present
    /\ (job.pc = "done" /\ job.op = "bulk") =>
          \/ \A i \in 1 .. Len(job.entries) : graph_metrics[job.entries[i]] = NewMetrics
          \/ \A i \in 1 .. Len(job.entries) : graph_metrics[job.entries[i]] # NewMetrics

====
